---- MODULE Spec2Model ----
(***************************************************************************)
(* Cortex workers (supervisor, curator, cleanup endpoint): the versioned   *)
(* document in the MODELS_JSON namespace, the advisory locks and the       *)
(* failure counters in the LOCKS namespace, the retrying API caller and    *)
(* the translation phase of the supervisor.                                *)
(*                                                                         *)
(* Every await of a handler on a shared namespace is one step.  Strings    *)
(* that the code orders or concatenates (version stamps) are sequences of  *)
(* character codes.                                                        *)
(***************************************************************************)
EXTENDS Integers, Naturals, Sequences, FiniteSets, TLC

VARIABLES
    \* ---- MODELS_JSON namespace
    kvList,          \* key 'list': [present, edits]; edits = the changes the stored document holds
    kvVersion,       \* key 'version': a string (character codes), << >> when absent
    \* ---- LOCKS namespace: lock keys
    locks,           \* lock key -> recorded holder (opId) or NoHolder
    clock,           \* wall clock in ticks (what new Date() reads)
    \* ---- supervisor invocations (handleScheduled / runMainProcessingLoop)
    supPc, attempt, currentData, initialVersion, changesMade, supNewVersion,
    supEnd,          \* how the invocation left the loop
    supReads, supChecks, supConflicts, supWrote, supReleased,   \* history of the invocation
    \* ---- cleanup request (handleCleanupRequest / performCleanup)
    clPc, supervisorHolder, clData, clNewVersion,
    \* ---- curator granular update (updateModelsList)
    cuPc, cuData, cuNewVersion, cuOps,
    \* ---- retrying caller (attemptApiCallWithRetries)
    settings,                  \* maxApiCallRetries, maxApiFailuresPerModelInTask, maxTotalApiFailuresInRun
    failuresKv,                \* LOCKS key failures:<modelId> (0 when absent)
    blacklistKv,               \* LOCKS key blacklist:<modelId>
    modelApiFailuresPerTask,   \* the in-memory map of the context, by <<modelId, task>>
    callPc, modelId, taskIdentifier, callAttempt, lastError, currentTotalFailures,
    callResult,                \* what the call returned: [success, errorType]
    opCalls,                   \* invocations of the operation by the current call
    allTransient, startBlacklisted, startTaskFailures, startTotalFailures,
    escalated,                 \* the recorded total reached the limit and the blacklist TTL has not run out since
    callsStarted,
    \* the translation phase over one series description
    processingChunkSize, maxCumulativeFailuresPerItem,
    desc,                      \* the description object stored in MODELS_JSON 'list'
    work,                      \* state.data: the copy the running cycle works on
    trPc, chunk, translationChanges, isTranslationApiDisabled,
    trEvent,                   \* the call or the discard the last step of the phase made, if any: [kind, lang, outcome]
    editsDone,
    maxConflictRetries,        \* settings.maxConflictRetries for the translation phase
    trAttempt,                 \* `attempt` of runMainProcessingLoop
    apiDisabledSeen,           \* a call of the current invocation met the disabled-API 403
    trTasks,                   \* const tasks = findTranslationTasks(...) of the iteration
    passes,                    \* the passes of the loop body made so far: [lang, skipped]
    \* both phases of an iteration over the series of one producer
    producers,                 \* data.producers[pName] as stored: the series in key order
    stateData,                 \* state.data.producers[pName] of the running iteration
    phPc, phTasks, phChunk,
    phPasses,                  \* the passes of the current phase's loop body: [task, skipped]
    phChangesMade, phApiDisabled,
    phCycles,                  \* iterations begun
    \* the syncer's merger
    workingProducers,          \* the producers of the stored list (existing)
    freshProducers,            \* the producers built from the sources (fresh)
    mgPc,
    merged,                    \* rehydrateAndMergeProducers(workingProducers, freshProducers)
    mergedAgain,               \* rehydrateAndMergeProducers(merged, freshProducers)
    \* invocations that record failures of one resource at the same time
    recPc,                     \* where each invocation is in the counting code
    recRead,                   \* its currentTotalFailures
    recorded,                  \* failures recorded so far, by resource
    \* the maintenance sweep over the stored list
    listProducers,             \* data.producers of the stored list
    sweptFrom,                 \* the producers the last sweep read
    cleanedItems,              \* the cleaned_items of its report
    sweepPc,
    \* the syncer: runs of syncModels
    syPc,
    syRun,                     \* the runs started so far
    syWorking,                 \* readCurrentData: the stored list
    syInitialVersion,          \* readCurrentData: the stored version
    syFinal,                   \* finalData
    syNewHex,                  \* the hash of finalData
    syNewVersion,              \* writeNewData: newVersion
    syPending,                 \* operations issued under context.waitUntil, not landed yet
    syIssued,                  \* the run has called writeNewData
    kvHash                     \* key 'hash' of MODELS_JSON

kvVars == <<kvList, kvVersion>>
supVars == <<supPc, attempt, currentData, initialVersion, changesMade, supNewVersion,
             supEnd, supReads, supChecks, supConflicts, supWrote, supReleased>>
clVars == <<clPc, supervisorHolder, clData, clNewVersion>>
cuVars == <<cuPc, cuData, cuNewVersion, cuOps>>
retryVars == <<settings, failuresKv, blacklistKv, modelApiFailuresPerTask, callPc, modelId,
               taskIdentifier, callAttempt, lastError, currentTotalFailures, callResult,
               opCalls, allTransient, startBlacklisted, startTaskFailures,
               startTotalFailures, escalated, callsStarted>>
transVars == <<processingChunkSize, maxCumulativeFailuresPerItem, desc, work, trPc, chunk,
               translationChanges, isTranslationApiDisabled, trEvent, editsDone,
               maxConflictRetries, trAttempt, apiDisabledSeen, trTasks, passes>>
docVars == <<producers, stateData, phPc, phTasks, phChunk, phPasses, phChangesMade,
             phApiDisabled, phCycles>>
mergeVars == <<workingProducers, freshProducers, mgPc, merged, mergedAgain>>
recVars == <<recPc, recRead, recorded>>
sweepVars == <<listProducers, sweptFrom, cleanedItems, sweepPc>>
syVars == <<syPc, syRun, syWorking, syInitialVersion, syFinal, syNewHex, syNewVersion,
            syPending, syIssued, kvHash>>
vars == <<kvVars, locks, clock, supVars, clVars, cuVars, retryVars, transVars, docVars,
          mergeVars, recVars, sweepVars, syVars>>

----------------------------------------------------------------------------
\* Settings and bounds

\* DEFAULTS.MAX_SUPERVISOR_CONFLICT_RETRIES
MAX_SUPERVISOR_CONFLICT_RETRIES == 3

\* how many granular updates the curator is asked for in one behaviour
MaxCuratorOps == 2

\* the retry settings range over 0..MaxSetting
MaxSetting == 2

\* calls of attemptApiCallWithRetries in one behaviour
MaxCalls == 2

\* English edits by the admin in a behaviour
MaxEdits == 1

\* processingChunkSize is drawn from 1..MaxChunk
MaxChunk == 2

\* the value of maxCumulativeFailuresPerItem in the translation phase
CeilingSetting == 3

\* iterations of the two phases over the series of a producer
MaxCycles == 2

SupIds == {"sup1", "sup2"}
CleanupId == "req_cleanup"
CuratorId == "curator"
NoHolder == "null"
LockKeys == {"supervisor_lock", "cleanup_lock", "syncer_lock", "data_write_lock"}

\* the changes a writer folds into the document it read
Edits == {"sup1", "sup2", "cleanup", "cur1", "cur2", "cur3", "cur4"}
CuratorEdit(n) == CASE n = 0 -> "cur1" [] n = 1 -> "cur2" [] n = 2 -> "cur3" [] OTHER -> "cur4"

----------------------------------------------------------------------------
\* Strings as character codes

Digit(d) == 48 + d

\* Date.prototype.toISOString: fixed width, digits first; the tick stands for the instant
toISOString(t) == <<Digit((t \div 10) % 10), Digit(t % 10)>>

\* the literal "cleanup-"
CleanupPrefix == <<99, 108, 101, 97, 110, 117, 112, 45>>

\* `cleanup-${new Date().toISOString()}`
CleanupVersion(t) == CleanupPrefix \o toISOString(t)

NullVersion == << >>

Min(a, b) == IF a <= b THEN a ELSE b

\* a < b in the lexicographic order of strings
LexLess(a, b) ==
    \/ /\ Len(a) < Len(b)
       /\ \A k \in 1..Len(a) : a[k] = b[k]
    \/ \E k \in 1..Min(Len(a), Len(b)) :
          /\ a[k] < b[k]
          /\ \A j \in 1..(k - 1) : a[j] = b[j]

----------------------------------------------------------------------------
\* KV operations

LocksPut(key, value) == [locks EXCEPT ![key] = value]
LocksDelete(key) == [locks EXCEPT ![key] = NoHolder]

NoDoc == [present |-> FALSE, edits |-> {}]
Doc(e) == [present |-> TRUE, edits |-> e]

----------------------------------------------------------------------------
\* Lock manager (supervisor kv/lock.js; the syncer's kv/lock.js is the same protocol)

\* acquireLock, first await: const currentHolder = await kv.get(lockKey)
AcquireSeesFree(key) == locks[key] = NoHolder

\* acquireLock, after the settle delay: newHolder === instanceId
AcquireVerified(key, instanceId) == locks[key] = instanceId

\* getLockHolder
getLockHolder(key) == locks[key]

----------------------------------------------------------------------------
\* Supervisor: handleScheduled and runMainProcessingLoop

SupUnchanged(i) ==
    /\ UNCHANGED <<clVars, cuVars, retryVars, transVars, docVars, mergeVars, recVars, sweepVars, syVars>>

\* handleScheduled: yield when a cleanup holds its lock
SupCheckCleanup(i) ==
    /\ supPc[i] = "start"
    /\ IF getLockHolder("cleanup_lock") # NoHolder
         THEN /\ supPc' = [supPc EXCEPT ![i] = "done"]
              /\ supEnd' = [supEnd EXCEPT ![i] = "yield"]
         ELSE /\ supPc' = [supPc EXCEPT ![i] = "lockGet"]
              /\ UNCHANGED supEnd
    /\ UNCHANGED <<kvVars, locks, clock, attempt, currentData, initialVersion, changesMade,
                   supNewVersion, supReads, supChecks, supConflicts, supWrote, supReleased>>
    /\ SupUnchanged(i)

\* acquireLock: read the current holder
SupLockGet(i) ==
    /\ supPc[i] = "lockGet"
    /\ IF AcquireSeesFree("supervisor_lock")
         THEN /\ supPc' = [supPc EXCEPT ![i] = "lockPut"]
              /\ UNCHANGED supEnd
         ELSE /\ supPc' = [supPc EXCEPT ![i] = "done"]
              /\ supEnd' = [supEnd EXCEPT ![i] = "lockFailed"]
    /\ UNCHANGED <<kvVars, locks, clock, attempt, currentData, initialVersion, changesMade,
                   supNewVersion, supReads, supChecks, supConflicts, supWrote, supReleased>>
    /\ SupUnchanged(i)

\* acquireLock: kv.put(lockKey, instanceId, ttl)
SupLockPut(i) ==
    /\ supPc[i] = "lockPut"
    /\ locks' = LocksPut("supervisor_lock", i)
    /\ supPc' = [supPc EXCEPT ![i] = "lockVerify"]
    /\ UNCHANGED <<kvVars, clock, attempt, currentData, initialVersion, changesMade,
                   supNewVersion, supEnd, supReads, supChecks, supConflicts, supWrote,
                   supReleased>>
    /\ SupUnchanged(i)

\* acquireLock: re-read after the settle delay and compare with the own id
SupLockVerify(i) ==
    /\ supPc[i] = "lockVerify"
    /\ IF AcquireVerified("supervisor_lock", i)
         THEN /\ supPc' = [supPc EXCEPT ![i] = "read"]
              /\ UNCHANGED supEnd
         ELSE /\ supPc' = [supPc EXCEPT ![i] = "done"]
              /\ supEnd' = [supEnd EXCEPT ![i] = "lockFailed"]
    /\ UNCHANGED <<kvVars, locks, clock, attempt, currentData, initialVersion, changesMade,
                   supNewVersion, supReads, supChecks, supConflicts, supWrote, supReleased>>
    /\ SupUnchanged(i)

\* loop head: readModelsData; a missing 'list' ends the invocation
SupRead(i) ==
    /\ supPc[i] = "read"
    /\ supReads' = [supReads EXCEPT ![i] = @ + 1]
    /\ IF ~kvList.present
         THEN /\ supPc' = [supPc EXCEPT ![i] = "release"]
              /\ supEnd' = [supEnd EXCEPT ![i] = "missing"]
              /\ UNCHANGED <<currentData, initialVersion, changesMade>>
         ELSE /\ currentData' = [currentData EXCEPT ![i] = kvList.edits]
              /\ initialVersion' = [initialVersion EXCEPT ![i] = kvVersion]
              /\ changesMade' = [changesMade EXCEPT ![i] = FALSE]
              /\ supPc' = [supPc EXCEPT ![i] = "tasks"]
              /\ UNCHANGED supEnd
    /\ UNCHANGED <<kvVars, locks, clock, attempt, supNewVersion, supChecks, supConflicts,
                   supWrote, supReleased>>
    /\ SupUnchanged(i)

\* variant: the iteration goes on to the version check and the write whatever
\* changesMade says
SupRunTasks_AlwaysCommits(i) ==
    /\ supPc[i] = "tasks"
    /\ \E changed \in BOOLEAN :
          /\ changesMade' = [changesMade EXCEPT ![i] = changed]
          /\ currentData' = [currentData EXCEPT ![i] = IF changed THEN @ \cup {i} ELSE @]
          /\ supPc' = [supPc EXCEPT ![i] = "check"]
          /\ UNCHANGED supEnd
    /\ UNCHANGED <<kvVars, locks, clock, attempt, initialVersion, supNewVersion, supReads,
                   supChecks, supConflicts, supWrote, supReleased>>
    /\ SupUnchanged(i)

\* phases 0 and 1 on the in-memory copy: either some task changed it or none did
SupRunTasks(i) ==
    /\ supPc[i] = "tasks"
    /\ \E changed \in BOOLEAN :
          /\ changesMade' = [changesMade EXCEPT ![i] = changed]
          /\ currentData' = [currentData EXCEPT ![i] = IF changed THEN @ \cup {i} ELSE @]
          /\ IF changed
               THEN /\ supPc' = [supPc EXCEPT ![i] = "check"]
                    /\ UNCHANGED supEnd
               ELSE /\ supPc' = [supPc EXCEPT ![i] = "release"]
                    /\ supEnd' = [supEnd EXCEPT ![i] = "noChanges"]
    /\ UNCHANGED <<kvVars, locks, clock, attempt, initialVersion, supNewVersion, supReads,
                   supChecks, supConflicts, supWrote, supReleased>>
    /\ SupUnchanged(i)

\* variant: a conflict found by the last iteration's check goes on to the write
SupVersionCheck_WritesOnLastConflict(i) ==
    /\ supPc[i] = "check"
    /\ supChecks' = [supChecks EXCEPT ![i] = @ + 1]
    /\ IF kvVersion # initialVersion[i] /\ attempt[i] < MAX_SUPERVISOR_CONFLICT_RETRIES
         THEN /\ supConflicts' = [supConflicts EXCEPT ![i] = @ + 1]
              /\ attempt' = [attempt EXCEPT ![i] = @ + 1]
              /\ supPc' = [supPc EXCEPT ![i] = "read"]
              /\ UNCHANGED <<supEnd, supNewVersion, clock>>
         ELSE /\ supConflicts' = [supConflicts EXCEPT ![i] =
                                     IF kvVersion # initialVersion[i] THEN @ + 1 ELSE @]
              /\ supNewVersion' = [supNewVersion EXCEPT ![i] = toISOString(clock)]
              /\ clock' = clock + 1
              /\ supPc' = [supPc EXCEPT ![i] = "write"]
              /\ UNCHANGED <<attempt, supEnd>>
    /\ UNCHANGED <<kvVars, locks, currentData, initialVersion, changesMade, supReads,
                   supWrote, supReleased>>
    /\ SupUnchanged(i)

\* stage 3: compare the stored version with the one read at the loop head
SupVersionCheck(i) ==
    /\ supPc[i] = "check"
    /\ supChecks' = [supChecks EXCEPT ![i] = @ + 1]
    /\ IF kvVersion # initialVersion[i]
         THEN /\ supConflicts' = [supConflicts EXCEPT ![i] = @ + 1]
              /\ IF attempt[i] < MAX_SUPERVISOR_CONFLICT_RETRIES
                   THEN \* discard the copy, back off, next iteration
                        /\ attempt' = [attempt EXCEPT ![i] = @ + 1]
                        /\ supPc' = [supPc EXCEPT ![i] = "read"]
                        /\ UNCHANGED supEnd
                   ELSE \* break
                        /\ supPc' = [supPc EXCEPT ![i] = "release"]
                        /\ supEnd' = [supEnd EXCEPT ![i] = "abort"]
                        /\ UNCHANGED attempt
              /\ UNCHANGED <<supNewVersion, clock>>
         ELSE \* writeModelsData: const newVersion = new Date().toISOString()
              /\ supNewVersion' = [supNewVersion EXCEPT ![i] = toISOString(clock)]
              /\ clock' = clock + 1
              /\ supPc' = [supPc EXCEPT ![i] = "write"]
              /\ UNCHANGED <<attempt, supEnd, supConflicts>>
    /\ UNCHANGED <<kvVars, locks, currentData, initialVersion, changesMade, supReads,
                   supWrote, supReleased>>
    /\ SupUnchanged(i)

\* writeModelsData: the puts of 'list' and 'version' land
SupWrite(i) ==
    /\ supPc[i] = "write"
    /\ kvList' = Doc(currentData[i])
    /\ kvVersion' = supNewVersion[i]
    /\ supWrote' = [supWrote EXCEPT ![i] = TRUE]
    /\ supPc' = [supPc EXCEPT ![i] = "release"]
    /\ supEnd' = [supEnd EXCEPT ![i] = "commit"]
    /\ UNCHANGED <<locks, clock, attempt, currentData, initialVersion, changesMade,
                   supNewVersion, supReads, supChecks, supConflicts, supReleased>>
    /\ SupUnchanged(i)

\* variant: the error ends the invocation with no finally block
SupThrow_NoFinally(i) ==
    /\ supPc[i] \in {"read", "check", "write"}
    /\ supPc' = [supPc EXCEPT ![i] = "done"]
    /\ supEnd' = [supEnd EXCEPT ![i] = "exception"]
    /\ UNCHANGED <<kvVars, locks, clock, attempt, currentData, initialVersion, changesMade,
                   supNewVersion, supReads, supChecks, supConflicts, supWrote, supReleased>>
    /\ SupUnchanged(i)

\* a MODELS_JSON operation of the loop rejects: the error leaves runMainProcessingLoop
\* and handleScheduled rethrows it on its way to the finally block
SupThrow(i) ==
    /\ supPc[i] \in {"read", "check", "write"}
    /\ supPc' = [supPc EXCEPT ![i] = "release"]
    /\ supEnd' = [supEnd EXCEPT ![i] = "exception"]
    /\ UNCHANGED <<kvVars, locks, clock, attempt, currentData, initialVersion, changesMade,
                   supNewVersion, supReads, supChecks, supConflicts, supWrote, supReleased>>
    /\ SupUnchanged(i)

\* finally: context.waitUntil(releaseLock(...)): kv.delete(lockKey)
SupRelease(i) ==
    /\ supPc[i] = "release"
    /\ locks' = LocksDelete("supervisor_lock")
    /\ supReleased' = [supReleased EXCEPT ![i] = TRUE]
    /\ supPc' = [supPc EXCEPT ![i] = "done"]
    /\ UNCHANGED <<kvVars, clock, attempt, currentData, initialVersion, changesMade,
                   supNewVersion, supEnd, supReads, supChecks, supConflicts, supWrote>>
    /\ SupUnchanged(i)

\* the runtime ends an invocation that holds the lock (time limit, eviction): the
\* finally block does not run and the entry stays in LOCKS
SupCrash(i) ==
    /\ supPc[i] \in {"read", "release"}
    /\ supPc' = [supPc EXCEPT ![i] = "crashed"]
    /\ supEnd' = [supEnd EXCEPT ![i] = "crashed"]
    /\ UNCHANGED <<kvVars, locks, clock, attempt, currentData, initialVersion, changesMade,
                   supNewVersion, supReads, supChecks, supConflicts, supWrote, supReleased>>
    /\ SupUnchanged(i)

\* variant: the entry is written without expirationTtl and stays
LockExpire_NoTtl(key) ==
    /\ FALSE
    /\ UNCHANGED vars

\* the expirationTtl of a lock entry runs out: LOCKS drops the key. The TTL is longer
\* than the settle delay between the put and the verifying get of acquireLock
LockExpire(key) ==
    /\ locks[key] # NoHolder
    /\ \A i \in SupIds : supPc[i] # "lockVerify"
    /\ locks' = LocksDelete(key)
    /\ UNCHANGED <<kvVars, clock, supVars, clVars, cuVars, retryVars, transVars, docVars,
                   mergeVars, recVars, sweepVars, syVars>>

\* the next cron trigger: a new invocation of handleScheduled
SupSchedule(i) ==
    /\ supPc[i] \in {"done", "crashed"}
    /\ supPc' = [supPc EXCEPT ![i] = "start"]
    /\ supEnd' = [supEnd EXCEPT ![i] = "running"]
    /\ supReleased' = [supReleased EXCEPT ![i] = FALSE]
    /\ UNCHANGED <<kvVars, locks, clock, attempt, currentData, initialVersion, changesMade,
                   supNewVersion, supReads, supChecks, supConflicts, supWrote>>
    /\ SupUnchanged(i)

----------------------------------------------------------------------------
\* Cleanup endpoint: handleCleanupRequest and performCleanup

ClUnchanged == UNCHANGED <<supVars, cuVars, retryVars, transVars, docVars, mergeVars, recVars, sweepVars, syVars>>

\* const supervisorHolder = await getLockHolder(locksKv, "supervisor_lock")
ClCheckSupervisor ==
    /\ clPc = "start"
    /\ supervisorHolder' = getLockHolder("supervisor_lock")
    /\ clPc' = "checkSyncer"
    /\ UNCHANGED <<kvVars, locks, clock, clData, clNewVersion>>
    /\ ClUnchanged

\* const syncerHolder = await getLockHolder(locksKv, "syncer_lock"); 409 when busy
ClCheckSyncer ==
    /\ clPc = "checkSyncer"
    /\ clPc' = IF supervisorHolder # NoHolder \/ getLockHolder("syncer_lock") # NoHolder
                 THEN "done" ELSE "lockGet"
    /\ UNCHANGED <<kvVars, locks, clock, supervisorHolder, clData, clNewVersion>>
    /\ ClUnchanged

\* acquireLock(locksKv, "cleanup_lock", opId, 60): read the current holder
ClLockGet ==
    /\ clPc = "lockGet"
    /\ clPc' = IF AcquireSeesFree("cleanup_lock") THEN "lockPut" ELSE "done"
    /\ UNCHANGED <<kvVars, locks, clock, supervisorHolder, clData, clNewVersion>>
    /\ ClUnchanged

ClLockPut ==
    /\ clPc = "lockPut"
    /\ locks' = LocksPut("cleanup_lock", CleanupId)
    /\ clPc' = "lockVerify"
    /\ UNCHANGED <<kvVars, clock, supervisorHolder, clData, clNewVersion>>
    /\ ClUnchanged

ClLockVerify ==
    /\ clPc = "lockVerify"
    /\ clPc' = IF AcquireVerified("cleanup_lock", CleanupId) THEN "getList" ELSE "done"
    /\ UNCHANGED <<kvVars, locks, clock, supervisorHolder, clData, clNewVersion>>
    /\ ClUnchanged

\* performCleanup: read 'list', scan it; with cleaned items stamp `cleanup-<now>`
ClScan ==
    /\ clPc = "getList"
    /\ IF ~kvList.present
         THEN /\ clPc' = "release"
              /\ UNCHANGED <<clData, clNewVersion, clock>>
         ELSE \E cleaned \in BOOLEAN :
                IF cleaned
                  THEN /\ clData' = kvList.edits \cup {"cleanup"}
                       /\ clNewVersion' = CleanupVersion(clock)
                       /\ clock' = clock + 1
                       /\ clPc' = "putList"
                  ELSE /\ clPc' = "release"
                       /\ UNCHANGED <<clData, clNewVersion, clock>>
    /\ UNCHANGED <<kvVars, locks, supervisorHolder>>
    /\ ClUnchanged

\* await modelsKv.put('list', JSON.stringify(data))
ClPutList ==
    /\ clPc = "putList"
    /\ kvList' = Doc(clData)
    /\ clPc' = "putVersion"
    /\ UNCHANGED <<kvVersion, locks, clock, supervisorHolder, clData, clNewVersion>>
    /\ ClUnchanged

\* await modelsKv.put('version', newVersion)
ClPutVersion ==
    /\ clPc = "putVersion"
    /\ kvVersion' = clNewVersion
    /\ clPc' = "release"
    /\ UNCHANGED <<kvList, locks, clock, supervisorHolder, clData, clNewVersion>>
    /\ ClUnchanged

\* finally: context.waitUntil(releaseLock(locksKv, cleanupLockKey, logger))
ClRelease ==
    /\ clPc = "release"
    /\ locks' = LocksDelete("cleanup_lock")
    /\ clPc' = "done"
    /\ UNCHANGED <<kvVars, clock, supervisorHolder, clData, clNewVersion>>
    /\ ClUnchanged

----------------------------------------------------------------------------
\* Curator: updateModelsList (granular update under data_write_lock)

CuUnchanged == UNCHANGED <<supVars, clVars, retryVars, transVars, docVars, mergeVars, recVars, sweepVars, syVars>>

\* acquireLock: read data_write_lock; a holder makes the request fail with 409
CuLockGet ==
    /\ cuPc = "idle"
    /\ cuOps < MaxCuratorOps
    /\ IF locks["data_write_lock"] # NoHolder
         THEN /\ cuOps' = cuOps + 1
              /\ UNCHANGED cuPc
         ELSE /\ cuPc' = "lockPut"
              /\ UNCHANGED cuOps
    /\ UNCHANGED <<kvVars, locks, clock, cuData, cuNewVersion>>
    /\ CuUnchanged

\* acquireLock: put the own opId, no re-read
CuLockPut ==
    /\ cuPc = "lockPut"
    /\ locks' = LocksPut("data_write_lock", CuratorId)
    /\ cuPc' = "getList"
    /\ UNCHANGED <<kvVars, clock, cuData, cuNewVersion, cuOps>>
    /\ CuUnchanged

\* read 'list' (404 when missing), merge the update, stamp new Date().toISOString()
CuMerge ==
    /\ cuPc = "getList"
    /\ IF ~kvList.present
         THEN /\ cuPc' = "release"
              /\ UNCHANGED <<cuData, cuNewVersion, clock>>
         ELSE /\ cuData' = kvList.edits \cup {CuratorEdit(cuOps)}
              /\ cuNewVersion' = toISOString(clock)
              /\ clock' = clock + 1
              /\ cuPc' = "putList"
    /\ UNCHANGED <<kvVars, locks, cuOps>>
    /\ CuUnchanged

\* await kv.put("list", JSON.stringify(data))
CuPutList ==
    /\ cuPc = "putList"
    /\ kvList' = Doc(cuData)
    /\ cuPc' = "putVersion"
    /\ UNCHANGED <<kvVersion, locks, clock, cuData, cuNewVersion, cuOps>>
    /\ CuUnchanged

\* await kv.put("version", newVersion)
CuPutVersion ==
    /\ cuPc = "putVersion"
    /\ kvVersion' = cuNewVersion
    /\ cuPc' = "release"
    /\ UNCHANGED <<kvList, locks, clock, cuData, cuNewVersion, cuOps>>
    /\ CuUnchanged

\* finally: releaseLock deletes data_write_lock
CuRelease ==
    /\ cuPc = "release"
    /\ locks' = LocksDelete("data_write_lock")
    /\ cuPc' = "idle"
    /\ cuOps' = cuOps + 1
    /\ UNCHANGED <<kvVars, clock, cuData, cuNewVersion>>
    /\ CuUnchanged

----------------------------------------------------------------------------
\* Retrying caller: attemptApiCallWithRetries (core/task.js)

Resources == {"google-translate-api"}
Tasks == {"t1", "t2"}

\* what one invocation of apiCallFunction does: it returns, or it throws a transient
\* error, an API error with a 4xx status other than 429, or a configuration error
Outcomes == {"ok", "transient", "client", "config"}

NoResult == [success |-> FALSE, errorType |-> "pending"]
Failure(errorType) == [success |-> FALSE, errorType |-> errorType]
Success == [success |-> TRUE, errorType |-> "none"]

RetryUnchanged ==
    UNCHANGED <<kvVars, locks, clock, supVars, clVars, cuVars, transVars, docVars,
                mergeVars, recVars, sweepVars, syVars>>

\* entry: the per-task counter defaults to 0; the loop runs for attempt <= maxRetries.
\* A translation task brings a fresh map, a description task shares its map.
StartCall(r, t, fresh) ==
    /\ callPc \in {"idle", "done"}
    /\ callsStarted < MaxCalls
    /\ callsStarted' = callsStarted + 1
    /\ modelId' = r
    /\ taskIdentifier' = t
    /\ modelApiFailuresPerTask' =
          IF fresh THEN [k \in Resources \X Tasks |-> 0] ELSE modelApiFailuresPerTask
    /\ callAttempt' = 1
    /\ opCalls' = 0
    /\ allTransient' = TRUE
    /\ startBlacklisted' = blacklistKv[r]
    /\ startTaskFailures' = modelApiFailuresPerTask'[<<r, t>>]
    /\ startTotalFailures' = failuresKv[r]
    /\ lastError' = "none"
    /\ currentTotalFailures' = 0
    /\ IF 1 <= settings.maxApiCallRetries
         THEN /\ callPc' = "check"
              /\ callResult' = NoResult
         ELSE /\ callPc' = "done"
              /\ callResult' = Failure("unknown_retry_failure")
    /\ UNCHANGED <<settings, failuresKv, blacklistKv, escalated>>
    /\ RetryUnchanged

\* loop head: persistent blacklist check, then the task-specific failure check
CheckBlacklists ==
    /\ callPc = "check"
    /\ IF blacklistKv[modelId]
         THEN /\ callPc' = "done"
              /\ callResult' = Failure("blacklisted_persistent")
         ELSE IF modelApiFailuresPerTask[<<modelId, taskIdentifier>>]
                    >= settings.maxApiFailuresPerModelInTask
                THEN /\ callPc' = "done"
                     /\ callResult' = Failure("blacklisted_task_action")
                ELSE /\ callPc' = "invoke"
                     /\ UNCHANGED callResult
    /\ UNCHANGED <<settings, failuresKv, blacklistKv, modelApiFailuresPerTask, modelId,
                   taskIdentifier, callAttempt, lastError, currentTotalFailures, opCalls,
                   allTransient, startBlacklisted, startTaskFailures, startTotalFailures,
                   escalated, callsStarted>>
    /\ RetryUnchanged

\* variant: a client error is counted like any other failure
InvokeOperation_CountsClientErrors ==
    /\ callPc = "invoke"
    /\ \E outcome \in Outcomes :
          /\ opCalls' = opCalls + 1
          /\ allTransient' = (allTransient /\ outcome = "transient")
          /\ lastError' = outcome
          /\ IF outcome = "ok"
               THEN /\ callPc' = "done"
                    /\ callResult' = Success
                    /\ UNCHANGED modelApiFailuresPerTask
               ELSE /\ modelApiFailuresPerTask' =
                          [modelApiFailuresPerTask EXCEPT ![<<modelId, taskIdentifier>>] = @ + 1]
                    /\ IF outcome = "client"
                         THEN /\ callPc' = "done"
                              /\ callResult' = Failure("client_error")
                         ELSE /\ callPc' = "getFailures"
                              /\ UNCHANGED callResult
    /\ UNCHANGED <<settings, failuresKv, blacklistKv, modelId, taskIdentifier, callAttempt,
                   currentTotalFailures, startBlacklisted, startTaskFailures,
                   startTotalFailures, escalated, callsStarted>>
    /\ RetryUnchanged

\* await apiCallFunction(...argsArray), and the head of the catch block
InvokeOperation ==
    /\ callPc = "invoke"
    /\ \E outcome \in Outcomes :
          /\ opCalls' = opCalls + 1
          /\ allTransient' = (allTransient /\ outcome = "transient")
          /\ lastError' = outcome
          /\ CASE outcome = "ok" ->
                    /\ callPc' = "done"
                    /\ callResult' = Success
                    /\ UNCHANGED modelApiFailuresPerTask
               [] outcome = "client" ->
                    /\ callPc' = "done"
                    /\ callResult' = Failure("client_error")
                    /\ UNCHANGED modelApiFailuresPerTask
               [] OTHER ->
                    /\ modelApiFailuresPerTask' =
                          [modelApiFailuresPerTask EXCEPT ![<<modelId, taskIdentifier>>] = @ + 1]
                    /\ callPc' = "getFailures"
                    /\ UNCHANGED callResult
    /\ UNCHANGED <<settings, failuresKv, blacklistKv, modelId, taskIdentifier, callAttempt,
                   currentTotalFailures, startBlacklisted, startTaskFailures,
                   startTotalFailures, escalated, callsStarted>>
    /\ RetryUnchanged

\* currentTotalFailures = (parseInt(await locksKv.get(totalFailuresKey), 10) || 0) + 1
GetFailures ==
    /\ callPc = "getFailures"
    /\ currentTotalFailures' = failuresKv[modelId] + 1
    /\ callPc' = "putFailures"
    /\ UNCHANGED <<settings, failuresKv, blacklistKv, modelApiFailuresPerTask, modelId,
                   taskIdentifier, callAttempt, lastError, callResult, opCalls, allTransient,
                   startBlacklisted, startTaskFailures, startTotalFailures, escalated,
                   callsStarted>>
    /\ RetryUnchanged

\* variant: out of attempts only after one attempt more
AfterFailure_OneMore(pc, result, att) ==
    IF callAttempt > settings.maxApiCallRetries
      THEN /\ pc = "done"
           /\ result = Failure("max_retries_exceeded")
           /\ att = callAttempt
      ELSE IF lastError = "config"
             THEN /\ pc = "done"
                  /\ result = Failure("config_error")
                  /\ att = callAttempt
             ELSE IF callAttempt + 1 <= settings.maxApiCallRetries
                    THEN /\ pc = "check"
                         /\ result = callResult
                         /\ att = callAttempt + 1
                    ELSE /\ pc = "done"
                         /\ result = Failure("unknown_retry_failure")
                         /\ att = callAttempt + 1

\* the tail of the catch block: out of attempts, configuration error, or back off and
\* go round the loop (attempt++, attempt <= maxRetries), with the fallback after the loop
AfterFailure(pc, result, att) ==
    IF callAttempt >= settings.maxApiCallRetries
      THEN /\ pc = "done"
           /\ result = Failure("max_retries_exceeded")
           /\ att = callAttempt
      ELSE IF lastError = "config"
             THEN /\ pc = "done"
                  /\ result = Failure("config_error")
                  /\ att = callAttempt
             ELSE IF callAttempt + 1 <= settings.maxApiCallRetries
                    THEN /\ pc = "check"
                         /\ result = callResult
                         /\ att = callAttempt + 1
                    ELSE /\ pc = "done"
                         /\ result = Failure("unknown_retry_failure")
                         /\ att = callAttempt + 1

\* variant: the blacklist is written only when the total exceeds the limit
PutFailures_BlacklistsLate ==
    /\ callPc = "putFailures"
    /\ failuresKv' = [failuresKv EXCEPT ![modelId] = currentTotalFailures]
    /\ escalated' = [escalated EXCEPT ![modelId] =
                        @ \/ currentTotalFailures >= settings.maxTotalApiFailuresInRun]
    /\ IF currentTotalFailures > settings.maxTotalApiFailuresInRun
         THEN /\ callPc' = "putBlacklist"
              /\ UNCHANGED <<callResult, callAttempt>>
         ELSE AfterFailure(callPc', callResult', callAttempt')
    /\ UNCHANGED <<settings, blacklistKv, modelApiFailuresPerTask, modelId, taskIdentifier,
                   lastError, currentTotalFailures, opCalls, allTransient, startBlacklisted,
                   startTaskFailures, startTotalFailures, callsStarted>>
    /\ RetryUnchanged

\* await locksKv.put(totalFailuresKey, currentTotalFailures.toString(), ttl), then the
\* comparison with maxTotalApiFailuresInRun
PutFailures ==
    /\ callPc = "putFailures"
    /\ failuresKv' = [failuresKv EXCEPT ![modelId] = currentTotalFailures]
    /\ escalated' = [escalated EXCEPT ![modelId] =
                        @ \/ currentTotalFailures >= settings.maxTotalApiFailuresInRun]
    /\ IF currentTotalFailures >= settings.maxTotalApiFailuresInRun
         THEN /\ callPc' = "putBlacklist"
              /\ UNCHANGED <<callResult, callAttempt>>
         ELSE AfterFailure(callPc', callResult', callAttempt')
    /\ UNCHANGED <<settings, blacklistKv, modelApiFailuresPerTask, modelId, taskIdentifier,
                   lastError, currentTotalFailures, opCalls, allTransient, startBlacklisted,
                   startTaskFailures, startTotalFailures, callsStarted>>
    /\ RetryUnchanged

\* await locksKv.put(blacklistKey, "true", ttl)
PutBlacklist ==
    /\ callPc = "putBlacklist"
    /\ blacklistKv' = [blacklistKv EXCEPT ![modelId] = TRUE]
    /\ AfterFailure(callPc', callResult', callAttempt')
    /\ UNCHANGED <<settings, failuresKv, modelApiFailuresPerTask, modelId, taskIdentifier,
                   lastError, currentTotalFailures, opCalls, allTransient, startBlacklisted,
                   startTaskFailures, startTotalFailures, escalated, callsStarted>>
    /\ RetryUnchanged

\* the TTL of blacklist:<modelId> runs out
ExpireBlacklist(r) ==
    /\ blacklistKv[r]
    /\ blacklistKv' = [blacklistKv EXCEPT ![r] = FALSE]
    /\ escalated' = [escalated EXCEPT ![r] = FALSE]
    /\ UNCHANGED <<settings, failuresKv, modelApiFailuresPerTask, callPc, modelId,
                   taskIdentifier, callAttempt, lastError, currentTotalFailures, callResult,
                   opCalls, allTransient, startBlacklisted, startTaskFailures,
                   startTotalFailures, callsStarted>>
    /\ RetryUnchanged

\* the TTL of failures:<modelId> runs out
ExpireFailures(r) ==
    /\ failuresKv[r] > 0
    /\ failuresKv' = [failuresKv EXCEPT ![r] = 0]
    /\ UNCHANGED <<settings, blacklistKv, modelApiFailuresPerTask, callPc, modelId,
                   taskIdentifier, callAttempt, lastError, currentTotalFailures, callResult,
                   opCalls, allTransient, startBlacklisted, startTaskFailures,
                   startTotalFailures, escalated, callsStarted>>
    /\ RetryUnchanged

InitRetry(settingValues) ==
    /\ settings \in [maxApiCallRetries : settingValues,
                     maxApiFailuresPerModelInTask : settingValues,
                     maxTotalApiFailuresInRun : settingValues]
    /\ failuresKv = [r \in Resources |-> 0]
    /\ blacklistKv = [r \in Resources |-> FALSE]
    /\ modelApiFailuresPerTask = [k \in Resources \X Tasks |-> 0]
    /\ callPc = "idle"
    /\ modelId = "google-translate-api"
    /\ taskIdentifier = "t1"
    /\ callAttempt = 1
    /\ lastError = "none"
    /\ currentTotalFailures = 0
    /\ callResult = NoResult
    /\ opCalls = 0
    /\ allTransient = TRUE
    /\ startBlacklisted = FALSE
    /\ startTaskFailures = 0
    /\ startTotalFailures = 0
    /\ escalated = [r \in Resources |-> FALSE]
    /\ callsStarted = 0

----------------------------------------------------------------------------
\* Persistent failure counting of attemptApiCallWithRetries by invocations that run at
\* the same time (runs of the supervisor whose lock did not exclude each other): each
\* await on LOCKS is a step of its own

Invocations == {"run1", "run2"}
MaxRecorded == 3

RecUnchanged ==
    UNCHANGED <<kvVars, locks, clock, supVars, clVars, cuVars, transVars, docVars,
                mergeVars, sweepVars, syVars, settings, modelApiFailuresPerTask, callPc, modelId,
                taskIdentifier, callAttempt, lastError, currentTotalFailures, callResult,
                opCalls, allTransient, startBlacklisted, startTaskFailures,
                startTotalFailures, callsStarted>>

\* the operation of an invocation throws a transient error: the catch block is entered
RecFail(i, r) ==
    /\ recPc[i] = "idle"
    /\ recorded[r] < MaxRecorded
    /\ recorded' = [recorded EXCEPT ![r] = @ + 1]
    /\ recPc' = [recPc EXCEPT ![i] = "getFailures"]
    /\ UNCHANGED <<recRead, failuresKv, blacklistKv, escalated>>
    /\ RecUnchanged

\* currentTotalFailures = (parseInt(await locksKv.get(totalFailuresKey), 10) || 0) + 1
RecGet(i, r) ==
    /\ recPc[i] = "getFailures"
    /\ recRead' = [recRead EXCEPT ![i] = failuresKv[r] + 1]
    /\ recPc' = [recPc EXCEPT ![i] = "putFailures"]
    /\ UNCHANGED <<recorded, failuresKv, blacklistKv, escalated>>
    /\ RecUnchanged

\* await locksKv.put(totalFailuresKey, currentTotalFailures.toString(), ttl), then the
\* comparison with maxTotalApiFailuresInRun
RecPut(i, r) ==
    /\ recPc[i] = "putFailures"
    /\ failuresKv' = [failuresKv EXCEPT ![r] = recRead[i]]
    /\ recPc' = [recPc EXCEPT ![i] =
                    IF recRead[i] >= settings.maxTotalApiFailuresInRun
                      THEN "putBlacklist" ELSE "idle"]
    /\ UNCHANGED <<recorded, recRead, blacklistKv, escalated>>
    /\ RecUnchanged

\* await locksKv.put(blacklistKey, "true", ttl)
RecBlacklist(i, r) ==
    /\ recPc[i] = "putBlacklist"
    /\ blacklistKv' = [blacklistKv EXCEPT ![r] = TRUE]
    /\ recPc' = [recPc EXCEPT ![i] = "idle"]
    /\ UNCHANGED <<recorded, recRead, failuresKv, escalated>>
    /\ RecUnchanged

InitRecorders ==
    /\ recPc = [i \in Invocations |-> "idle"]
    /\ recRead = [i \in Invocations |-> 0]
    /\ recorded = [r \in Resources |-> 0]

----------------------------------------------------------------------------
\* Translation phase: findTranslationTasks (core/find.js) and processTranslationTasks
\* (core/main.js) over one series description with its processing_status

NOT_PROCESSED == "not_processed"
GENERATED == "generated"
COMPLETED == "completed"
TRANSLATION_RETRY == "translation_retry"
FAILED == "FAILED"
VERIFIED == "verified"
AUDITED_CORRECTED == "audited_corrected"
Undefined == "undefined"

TargetLanguages == <<"tr", "fr">>
Langs == {TargetLanguages[k] : k \in 1..Len(TargetLanguages)}

\* English texts, as character codes: "OK" and "Hi"
EnglishTexts == {<<79, 75>>, <<72, 105>>}

\* an absent <lang>_source_hash
NoHash == << >>

\* Number.prototype.toString(36)
Base36Digit(d) == IF d < 10 THEN 48 + d ELSE 97 + (d - 10)

RECURSIVE Base36(_)
Base36(n) ==
    IF n < 0 THEN <<45>> \o Base36(0 - n)
    ELSE IF n < 36 THEN <<Base36Digit(n)>>
    ELSE Base36(n \div 36) \o <<Base36Digit(n % 36)>>

\* the loop of simpleHash: hash = (hash << 5) - hash + char; hash |= 0. The texts of
\* the model are short enough for every value to stay inside 32 bits, where (hash << 5)
\* is the product by 32 and |= 0 changes nothing.
RECURSIVE HashCode(_, _)
HashCode(str, hash) ==
    IF str = << >> THEN hash
    ELSE HashCode(Tail(str), (hash * 32) - hash + Head(str))

simpleHash(str) ==
    IF str = << >> THEN <<104, 48>> ELSE <<104>> \o Base36(HashCode(str, 0))

COMPLETED_STATUSES == {COMPLETED, FAILED}

\* variant: a language is pushed by its status alone
PushedTasks_StatusOnly(d) ==
    LET sourceHash == simpleHash(d.en)
        enTasks == IF d.status["en"] = GENERATED
                     THEN << [lang |-> "en", sourceHash |-> sourceHash,
                              currentStatus |-> GENERATED, isStale |-> FALSE] >>
                     ELSE << >>
        langTask(lang) == [lang |-> lang, sourceHash |-> sourceHash,
                           currentStatus |-> d.status[lang],
                           isStale |-> (d.hash[lang] # sourceHash)]
        all == [k \in 1..Len(TargetLanguages) |-> langTask(TargetLanguages[k])]
        needed(task) == task.currentStatus \notin COMPLETED_STATUSES
    IN  IF d.en = << >> THEN << >> ELSE enTasks \o SelectSeq(all, needed)

\* the tasks pushed for one series description, in the order of the pushes: the English
\* verification first, then the target languages in their order
PushedTasks(d) ==
    LET sourceHash == simpleHash(d.en)
        enTasks == IF d.status["en"] = GENERATED
                     THEN << [lang |-> "en", sourceHash |-> sourceHash,
                              currentStatus |-> GENERATED, isStale |-> FALSE] >>
                     ELSE << >>
        langTask(lang) == [lang |-> lang, sourceHash |-> sourceHash,
                           currentStatus |-> d.status[lang],
                           isStale |-> (d.hash[lang] # sourceHash)]
        all == [k \in 1..Len(TargetLanguages) |-> langTask(TargetLanguages[k])]
        needed(task) == task.currentStatus \notin COMPLETED_STATUSES \/ task.isStale
    IN  IF d.en = << >> THEN << >> ELSE enTasks \o SelectSeq(all, needed)

\* variant: a pending English verification goes before a retried translation
getPriority_GeneratedFirst(task) ==
    IF task.isStale \/ task.currentStatus = Undefined \/ task.currentStatus = NOT_PROCESSED
      THEN 1
    ELSE IF task.currentStatus = GENERATED THEN 2
    ELSE IF task.currentStatus = TRANSLATION_RETRY THEN 3
    ELSE 99

\* getPriority of the comparator of tasks.sort
getPriority(task) ==
    IF task.isStale \/ task.currentStatus = Undefined \/ task.currentStatus = NOT_PROCESSED
      THEN 1
    ELSE IF task.currentStatus = TRANSLATION_RETRY THEN 2
    ELSE IF task.currentStatus = GENERATED THEN 3
    ELSE 99

\* Array.prototype.sort is stable: tasks of equal priority keep the order of the pushes
SortByPriority(tasks) ==
    LET with(p) == SelectSeq(tasks, LAMBDA task : getPriority(task) = p)
    IN  with(1) \o with(2) \o with(3) \o with(99)

findTranslationTasks(d) == SortByPriority(PushedTasks(d))

\* variant: the chunk takes one task more than the setting
Slice_OneMore(tasks, n) == SubSeq(tasks, 1, Min(n + 1, Len(tasks)))

\* tasks.slice(0, n)
Slice(tasks, n) == SubSeq(tasks, 1, Min(n, Len(tasks)))

\* how a call of attemptApiCallWithRetries(performPrimaryTranslation, ...) ends for
\* processTranslationTasks: a translated text; a failure result after the operation has
\* thrown; the failure result "blacklisted_persistent" or "blacklisted_task_action" of
\* the checks at the head of the attempt loop, which carries no error; the failure
\* result of a 403 that names the Cloud Translation API; an exception out of the call
\* (a LOCKS operation that throws), which the catch of the loop body logs
CallOutcomes == {"success", "fail", "excluded", "disabled", "threw"}

NoEvent == [kind |-> "none", lang |-> "none", outcome |-> "none"]
Event(kind, lang, outcome) == [kind |-> kind, lang |-> lang, outcome |-> outcome]

NoWork ==
    [en |-> << >>,
     status |-> [l \in Langs \cup {"en"} |-> Undefined],
     hash |-> [l \in Langs |-> NoHash],
     cumulativeFailureCount |-> 0,
     failedInARow |-> [l \in Langs |-> 0]]

TransUnchanged ==
    UNCHANGED <<kvVars, locks, clock, supVars, clVars, cuVars, retryVars, docVars,
                mergeVars, recVars, sweepVars, syVars>>

\* an iteration of runMainProcessingLoop begins: readModelsData, then the head of
\* processTranslationTasks (find, slice)
TrRead ==
    /\ trPc = "idle"
    /\ work' = desc
    /\ trTasks' = findTranslationTasks(desc)
    /\ chunk' = Slice(trTasks', processingChunkSize)
    /\ passes' = << >>
    /\ translationChanges' = FALSE
    /\ isTranslationApiDisabled' = FALSE
    /\ trPc' = "loop"
    /\ trEvent' = NoEvent
    /\ UNCHANGED <<processingChunkSize, maxCumulativeFailuresPerItem, desc, editsDone,
                   maxConflictRetries, trAttempt, apiDisabledSeen>>
    /\ TransUnchanged

\* variant: the success branch leaves the stored source hash as it is
OnSuccess_NoSourceHash(w, task) ==
    [w EXCEPT !.status[task.lang] = COMPLETED,
              !.cumulativeFailureCount = 0,
              !.failedInARow[task.lang] = 0]

\* step 4 of the loop body, success branch
OnSuccess(w, task) ==
    [w EXCEPT !.status[task.lang] = COMPLETED,
              !.hash[task.lang] = task.sourceHash,
              !.cumulativeFailureCount = 0,
              !.failedInARow[task.lang] = 0]

\* step 4 of the loop body, failure branch: the status toggles, the counter grows
OnFailure(w, task) ==
    [w EXCEPT !.status[task.lang] =
                  IF w.status[task.lang] = TRANSLATION_RETRY THEN FAILED
                  ELSE TRANSLATION_RETRY,
              !.cumulativeFailureCount = @ + 1,
              !.failedInARow[task.lang] = Min(@ + 1, 2)]

\* variant: at the ceiling the status is forced and the hash is left as it is
AtCeiling_NoStamp(w, task) ==
    IF w.cumulativeFailureCount >= maxCumulativeFailuresPerItem
      THEN [w EXCEPT !.status[task.lang] = FAILED]
      ELSE w

\* the check after step 4: at the ceiling the status is forced to FAILED and the
\* task's source hash is stamped
AtCeiling(w, task) ==
    IF w.cumulativeFailureCount >= maxCumulativeFailuresPerItem
      THEN [w EXCEPT !.status[task.lang] = FAILED, !.hash[task.lang] = task.sourceHash]
      ELSE w

\* one pass of the body of `for (const task of chunk)`
TrProcess ==
    /\ trPc = "loop"
    /\ chunk # << >>
    /\ LET task == Head(chunk) IN
         /\ chunk' = Tail(chunk)
         /\ IF isTranslationApiDisabled
              THEN /\ trEvent' = NoEvent
                   /\ UNCHANGED <<work, translationChanges, isTranslationApiDisabled>>
            ELSE IF task.lang = "en" /\ work.status["en"] = GENERATED
              THEN /\ work' = [work EXCEPT !.status["en"] = COMPLETED]
                   /\ translationChanges' = TRUE
                   /\ trEvent' = NoEvent
                   /\ UNCHANGED isTranslationApiDisabled
            ELSE \E outcome \in CallOutcomes :
                   /\ trEvent' = Event("call", task.lang, outcome)
                   /\ CASE outcome = "success" ->
                             /\ work' = AtCeiling(OnSuccess(work, task), task)
                             /\ translationChanges' = TRUE
                             /\ UNCHANGED isTranslationApiDisabled
                        [] outcome \in {"fail", "excluded"} ->
                             /\ work' = AtCeiling(OnFailure(work, task), task)
                             /\ translationChanges' = TRUE
                             /\ UNCHANGED isTranslationApiDisabled
                        [] outcome = "disabled" ->
                             /\ isTranslationApiDisabled' = TRUE
                             /\ UNCHANGED <<work, translationChanges>>
                        [] outcome = "threw" ->
                             /\ UNCHANGED <<work, translationChanges,
                                            isTranslationApiDisabled>>
    /\ trPc' = "loop"
    /\ apiDisabledSeen' = (apiDisabledSeen \/ trEvent'.outcome = "disabled")
    /\ passes' = Append(passes, [lang |-> Head(chunk).lang,
                                  skipped |-> isTranslationApiDisabled])
    /\ UNCHANGED <<processingChunkSize, maxCumulativeFailuresPerItem, desc, editsDone,
                   maxConflictRetries, trAttempt, trTasks>>
    /\ TransUnchanged

\* the end of the iteration: nothing to write; or the version check and writeModelsData
\* store the working copy; or the version has changed and the working copy is dropped,
\* with another iteration of the same invocation to follow while attempt < maxConflictRetries
TrEnd ==
    /\ trPc = "loop"
    /\ chunk = << >>
    /\ IF ~translationChanges
         THEN /\ trEvent' = NoEvent
              /\ UNCHANGED desc
         ELSE \E stored \in BOOLEAN :
                IF stored
                  THEN /\ desc' = work
                       /\ trEvent' = NoEvent
                  ELSE /\ trEvent' = Event("discard", "none", "none")
                       /\ UNCHANGED desc
    /\ IF trEvent'.kind = "discard" /\ trAttempt < maxConflictRetries
         THEN /\ trAttempt' = trAttempt + 1
              /\ UNCHANGED apiDisabledSeen
         ELSE /\ trAttempt' = 1
              /\ apiDisabledSeen' = FALSE
    /\ work' = NoWork
    /\ trTasks' = << >>
    /\ passes' = << >>
    /\ translationChanges' = FALSE
    /\ isTranslationApiDisabled' = FALSE
    /\ trPc' = "idle"
    /\ UNCHANGED <<processingChunkSize, maxCumulativeFailuresPerItem, chunk, editsDone,
                   maxConflictRetries>>
    /\ TransUnchanged

\* an admin replaces the English text of the stored description
EditEnglish ==
    /\ editsDone < MaxEdits
    /\ editsDone' = editsDone + 1
    /\ \E text \in EnglishTexts \ {desc.en} :
          desc' = [desc EXCEPT !.en = text, !.failedInARow = [l \in Langs |-> 0]]
    /\ UNCHANGED <<processingChunkSize, maxCumulativeFailuresPerItem, work, trPc, chunk,
                   translationChanges, isTranslationApiDisabled, trEvent,
                   maxConflictRetries, trAttempt, apiDisabledSeen, trTasks, passes>>
    /\ TransUnchanged

InitTransWith(chunkSizes, ceilings, descriptions, retries) ==
    /\ processingChunkSize \in chunkSizes
    /\ maxCumulativeFailuresPerItem \in ceilings
    /\ desc \in descriptions
    /\ work = NoWork
    /\ trPc = "idle"
    /\ chunk = << >>
    /\ translationChanges = FALSE
    /\ isTranslationApiDisabled = FALSE
    /\ trEvent = NoEvent
    /\ editsDone = 0
    /\ maxConflictRetries = retries
    /\ trAttempt = 1
    /\ apiDisabledSeen = FALSE
    /\ trTasks = << >>
    /\ passes = << >>

InitTrans(chunkSizes, ceilings, texts, enStatuses, retries) ==
    InitTransWith(chunkSizes, ceilings,
                  {[NoWork EXCEPT !.en = text, !.status["en"] = enStatus] :
                      text \in texts, enStatus \in enStatuses},
                  retries)

----------------------------------------------------------------------------
\* Both phases of an iteration over the series of one producer
\* (runMainProcessingLoop, processSeriesDescriptionTasks, processTranslationTasks)

\* the variant keys a series object of the model can carry
VariantNames == {"Default", "v1"}

\* the text a successful generateSeriesEnglishDescription returns: "Hi"
GeneratedText == <<72, 105>>

\* a series object: its variant keys, whether it has the key `hidden`, whether it has the
\* key `series_description`, whether that object has the key `processing_status`, and
\* the description (en, statuses, stored hashes, failure counter)
SeriesEntry(variants, hidden, described, withStatus, d) ==
    [variants |-> variants, hidden |-> hidden, series_description |-> described,
     processing_status |-> withStatus, d |-> d]

\* Object.keys(seriesObj).filter(key => key !== 'series_description')
variantKeys(seriesObj) ==
    seriesObj.variants \cup (IF seriesObj.hidden THEN {"hidden"} ELSE {})

\* variantKeys.length === 1 && variantKeys[0] === 'Default'
IsDefaultContainer(seriesObj) == variantKeys(seriesObj) = {"Default"}

\* seriesObj.series_description ??= { processing_status: {} }
EnsureDescription(seriesObj) ==
    IF seriesObj.series_description THEN seriesObj
    ELSE [seriesObj EXCEPT !.series_description = TRUE, !.processing_status = TRUE]

\* variant: the scan gives every series a series_description, the containers of a
\* single "Default" model too
findSeriesForDescriptionGeneration_EnsuresAll(data) ==
    LET scanned == [k \in 1..Len(data) |-> EnsureDescription(data[k])]
        all == [k \in 1..Len(data) |-> [sName |-> k]]
        pushed(task) == /\ ~IsDefaultContainer(data[task.sName])
                        /\ scanned[task.sName].d.en = << >>
    IN  [tasks |-> SelectSeq(all, pushed), data |-> scanned]

\* the scan of findSeriesForDescriptionGeneration: the tasks it returns and the data as
\* the scan leaves it
findSeriesForDescriptionGeneration(data) ==
    LET scanned == [k \in 1..Len(data) |->
                      IF IsDefaultContainer(data[k]) THEN data[k]
                      ELSE EnsureDescription(data[k])]
        all == [k \in 1..Len(data) |-> [sName |-> k]]
        pushed(task) == /\ ~IsDefaultContainer(data[task.sName])
                        /\ scanned[task.sName].d.en = << >>
    IN  [tasks |-> SelectSeq(all, pushed), data |-> scanned]

\* seriesObj.series_description?.en
HasEnglish(seriesObj) == seriesObj.series_description /\ seriesObj.d.en # << >>

\* the tasks findTranslationTasks pushes for the series description of series k
SeriesTasks(data, k) ==
    LET pushed == PushedTasks(data[k].d)
    IN  [i \in 1..Len(pushed) |->
           [sName |-> k, lang |-> pushed[i].lang, sourceHash |-> pushed[i].sourceHash,
            currentStatus |-> pushed[i].currentStatus, isStale |-> pushed[i].isStale]]

\* the pushes of the scan from series k on, in the order of the traversal
RECURSIVE PushedFrom(_, _)
PushedFrom(data, k) ==
    IF k > Len(data) THEN << >>
    ELSE (IF HasEnglish(data[k]) THEN SeriesTasks(data, k) ELSE << >>)
         \o PushedFrom(data, k + 1)

\* findTranslationTasks over the series of the producer: the sorted tasks and the data as
\* the scan leaves it (seriesDesc.processing_status ??= {})
findTranslationTasksInData(data) ==
    [tasks |-> SortByPriority(PushedFrom(data, 1)),
     data |-> [k \in 1..Len(data) |->
                 IF HasEnglish(data[k]) THEN [data[k] EXCEPT !.processing_status = TRUE]
                 ELSE data[k]]]

DocUnchanged ==
    UNCHANGED <<kvVars, locks, clock, supVars, clVars, cuVars, retryVars, transVars,
                mergeVars, recVars, sweepVars, syVars>>

\* an iteration begins: readModelsData, then the head of processSeriesDescriptionTasks
PhStart(counted) ==
    /\ phPc \in {"idle", "aborted"}
    /\ counted => phCycles < MaxCycles
    /\ phCycles' = IF phCycles < MaxCycles THEN phCycles + 1 ELSE phCycles
    /\ LET found == findSeriesForDescriptionGeneration(producers) IN
         /\ stateData' = found.data
         /\ phTasks' = found.tasks
         /\ phChunk' = Slice(found.tasks, processingChunkSize)
    /\ phPasses' = << >>
    /\ phChangesMade' = FALSE
    /\ phApiDisabled' = FALSE
    /\ phPc' = "phase0"
    /\ UNCHANGED producers
    /\ DocUnchanged

\* a scheduled invocation reaches the loop head; MaxCycles of them are followed
PhRead == PhStart(TRUE)

\* the loop body has been entered for the task: it was skipped or not, and an exception
\* came out of the call or not
Pass(task, skipped, threw) == [task |-> task, skipped |-> skipped, threw |-> threw]

\* what the attempts for one series end with: a generated description, none, or an
\* exception out of attemptApiCallWithRetries (a LOCKS operation that throws)
GenerationOutcomes == {"generated", "failed", "threw"}

\* one pass of the body of `for (const { pName, sName } of chunk)`. The body has no
\* try: an exception leaves processSeriesDescriptionTasks and runMainProcessingLoop, and
\* the catch around the loop in the scheduled handler ends the run
PhGenerateOf(outcomes) ==
    /\ phPc = "phase0"
    /\ phChunk # << >>
    /\ LET task == Head(phChunk) IN
         /\ phChunk' = Tail(phChunk)
         /\ \E outcome \in outcomes :
              /\ phPasses' = Append(phPasses, Pass(task, FALSE, outcome = "threw"))
              /\ phPc' = IF outcome = "threw" THEN "aborted" ELSE phPc
              /\ IF outcome = "generated"
                   THEN /\ stateData' =
                             [stateData EXCEPT ![task.sName].d.en = GeneratedText,
                                               ![task.sName].d.status["en"] = GENERATED]
                        /\ phChangesMade' = TRUE
                   ELSE UNCHANGED <<stateData, phChangesMade>>
    /\ UNCHANGED <<producers, phTasks, phApiDisabled, phCycles>>
    /\ DocUnchanged

PhGenerate == PhGenerateOf(GenerationOutcomes)

\* settings.seriesDescMinLength, settings.seriesDescMaxLength
seriesDescMinLength == 2
seriesDescMaxLength == 3

\* the invocations of generateSeriesEnglishDescription one pass can make
\* (seriesDescRetries attempts with maxApiCallRetries calls each)
MaxGenCalls == 2

\* what the model answers, trimmed: nothing, or a text of n characters
Content(n) == [i \in 1..n |-> 120]
Contents == {Content(n) : n \in 0..(seriesDescMaxLength + 1)}

\* variant: the length is tested against the minimum alone
generateSeriesEnglishDescription_NoMaximum(content) ==
    IF content # << >> /\ Len(content) >= seriesDescMinLength
      THEN [threw |-> FALSE, result |-> content]
      ELSE [threw |-> TRUE, result |-> << >>]

\* generateSeriesEnglishDescription on the content callAIModel has got: the description
\* is returned when its length is in the range, and an Error is thrown otherwise
\* (callAIModel itself throws on empty content)
generateSeriesEnglishDescription(content) ==
    IF /\ content # << >>
       /\ Len(content) >= seriesDescMinLength
       /\ Len(content) <= seriesDescMaxLength
      THEN [threw |-> FALSE, result |-> content]
      ELSE [threw |-> TRUE, result |-> << >>]

\* the invocations of a pass, in order: the loops go on while the operation throws and
\* end with the first result
CallsOfPass ==
    {tried \in UNION {[1..n -> Contents] : n \in 1..MaxGenCalls} :
        \A i \in 1..(Len(tried) - 1) : generateSeriesEnglishDescription(tried[i]).threw}

\* one pass of the body of `for (const { pName, sName } of chunk)` with the answers of
\* the model: every throw of the operation is counted by attemptApiCallWithRetries in
\* modelApiFailuresForThisGenTask; `if (result.success && result.result)` writes the
\* description and the status
PhGenerateFrom ==
    /\ phPc = "phase0"
    /\ phChunk # << >>
    /\ LET task == Head(phChunk) IN
         /\ phChunk' = Tail(phChunk)
         /\ \E tried \in CallsOfPass :
              LET last == generateSeriesEnglishDescription(tried[Len(tried)])
                  failures == Cardinality({i \in 1..Len(tried) :
                                 generateSeriesEnglishDescription(tried[i]).threw})
              IN
                /\ phPasses' = Append(phPasses,
                                      [task |-> task, skipped |-> FALSE, threw |-> FALSE,
                                       tried |-> tried, failures |-> failures])
                /\ IF ~last.threw /\ last.result # << >>
                     THEN /\ stateData' =
                               [stateData EXCEPT ![task.sName].d.en = last.result,
                                                 ![task.sName].d.status["en"] = GENERATED]
                          /\ phChangesMade' = TRUE
                     ELSE UNCHANGED <<stateData, phChangesMade>>
    /\ UNCHANGED <<producers, phPc, phTasks, phApiDisabled, phCycles>>
    /\ DocUnchanged

\* phase 0 is over: the head of processTranslationTasks (find, slice)
PhFindTranslations ==
    /\ phPc = "phase0"
    /\ phChunk = << >>
    /\ LET found == findTranslationTasksInData(stateData) IN
         /\ stateData' = found.data
         /\ phTasks' = found.tasks
         /\ phChunk' = Slice(found.tasks, processingChunkSize)
    /\ phPasses' = << >>
    /\ phPc' = "phase1"
    /\ UNCHANGED <<producers, phChangesMade, phApiDisabled, phCycles>>
    /\ DocUnchanged

\* one pass of the body of `for (const task of chunk)` of processTranslationTasks
PhTranslateOf(outcomes) ==
    /\ phPc = "phase1"
    /\ phChunk # << >>
    /\ LET task == Head(phChunk)
           w == stateData[task.sName].d
       IN
         /\ phChunk' = Tail(phChunk)
         /\ IF phApiDisabled
              THEN /\ phPasses' = Append(phPasses, Pass(task, TRUE, FALSE))
                   /\ UNCHANGED <<stateData, phChangesMade, phApiDisabled>>
            ELSE IF task.lang = "en" /\ w.status["en"] = GENERATED
              THEN /\ phPasses' = Append(phPasses, Pass(task, FALSE, FALSE))
                   /\ stateData' = [stateData EXCEPT ![task.sName].d.status["en"] = COMPLETED]
                   /\ phChangesMade' = TRUE
                   /\ UNCHANGED phApiDisabled
            ELSE \E outcome \in outcomes :
                /\ phPasses' = Append(phPasses, Pass(task, FALSE, outcome = "threw"))
                /\ CASE outcome = "success" ->
                          /\ stateData' = [stateData EXCEPT ![task.sName].d =
                                               AtCeiling(OnSuccess(w, task), task)]
                          /\ phChangesMade' = TRUE
                          /\ UNCHANGED phApiDisabled
                     [] outcome \in {"fail", "excluded"} ->
                          /\ stateData' = [stateData EXCEPT ![task.sName].d =
                                               AtCeiling(OnFailure(w, task), task)]
                          /\ phChangesMade' = TRUE
                          /\ UNCHANGED phApiDisabled
                     [] outcome = "disabled" ->
                          /\ phApiDisabled' = TRUE
                          /\ UNCHANGED <<stateData, phChangesMade>>
                     [] outcome = "threw" ->
                          UNCHANGED <<stateData, phChangesMade, phApiDisabled>>
    /\ UNCHANGED <<producers, phPc, phTasks, phCycles>>
    /\ DocUnchanged

PhTranslate == PhTranslateOf(CallOutcomes)

\* the end of the iteration: nothing to write; or the version check and writeModelsData
\* store state.data; or the version has changed and state.data is dropped
PhEndOf(versionChecks) ==
    /\ phPc = "phase1"
    /\ phChunk = << >>
    /\ IF ~phChangesMade
         THEN UNCHANGED producers
         ELSE \E stored \in versionChecks :
                IF stored THEN producers' = stateData ELSE UNCHANGED producers
    /\ stateData' = << >>
    /\ phTasks' = << >>
    /\ phPasses' = << >>
    /\ phChangesMade' = FALSE
    /\ phApiDisabled' = FALSE
    /\ phPc' = "idle"
    /\ UNCHANGED <<phChunk, phCycles>>
    /\ DocUnchanged

PhEnd == PhEndOf(BOOLEAN)

\* findSeriesForDescriptionGeneration(data) applied to a stored document
FindSeries ==
    /\ phPc = "idle"
    /\ LET found == findSeriesForDescriptionGeneration(producers) IN
         /\ stateData' = found.data
         /\ phTasks' = found.tasks
    /\ phPc' = "series"
    /\ UNCHANGED <<producers, phChunk, phPasses, phChangesMade, phApiDisabled, phCycles>>
    /\ DocUnchanged

\* findTranslationTasks(data, targetLanguages) applied to a stored document
FindTranslations ==
    /\ phPc = "idle"
    /\ LET found == findTranslationTasksInData(producers) IN
         /\ stateData' = found.data
         /\ phTasks' = found.tasks
    /\ phPc' = "translations"
    /\ UNCHANGED <<producers, phChunk, phPasses, phChangesMade, phApiDisabled, phCycles>>
    /\ DocUnchanged

InitDoc(documents) ==
    /\ producers \in documents
    /\ stateData = << >>
    /\ phPc = "idle"
    /\ phTasks = << >>
    /\ phChunk = << >>
    /\ phPasses = << >>
    /\ phChangesMade = FALSE
    /\ phApiDisabled = FALSE
    /\ phCycles = 0

----------------------------------------------------------------------------
\* The syncer's merger (rehydrateAndMergeProducers, pruneStaleModels, mergeDeep)

\* a JSON value: a primitive (a string, as character codes, or a status) or an object
\* with its own keys
Val(v) == [t |-> "val", v |-> v, m |-> << >>]
Obj(m) == [t |-> "obj", v |-> << >>, m |-> m]

\* isObject(item): a non-null object that is not an array
isObject(item) == item.t = "obj"

\* values that are no mapping: null (or undefined), and a number
NullValue == Val("null")
NumberValue == Val("number")
IsNullish(item) == ~isObject(item) /\ item = NullValue

UnsafeKeys == {"__proto__", "constructor", "prototype"}

\* variant: where both sides hold an object the target's object is kept as it is
RECURSIVE mergeDeep_KeepsTargetObjects(_, _)
mergeDeep_KeepsTargetObjects(target, source) ==
    IF isObject(target) /\ isObject(source)
      THEN LET written == DOMAIN source.m \ UnsafeKeys
           IN  Obj([key \in DOMAIN target.m \cup written |->
                      IF key \notin written THEN target.m[key]
                      ELSE IF /\ isObject(source.m[key])
                              /\ key \in DOMAIN target.m
                              /\ isObject(target.m[key])
                        THEN target.m[key]
                      ELSE source.m[key]])
      ELSE target

\* variant: every key of source is written, the unsafe ones too
RECURSIVE mergeDeep_WritesUnsafeKeys(_, _)
mergeDeep_WritesUnsafeKeys(target, source) ==
    IF isObject(target) /\ isObject(source)
      THEN Obj([key \in DOMAIN target.m \cup DOMAIN source.m |->
                  IF key \notin DOMAIN source.m THEN target.m[key]
                  ELSE IF /\ isObject(source.m[key])
                          /\ key \in DOMAIN target.m
                          /\ isObject(target.m[key])
                    THEN mergeDeep_WritesUnsafeKeys(target.m[key], source.m[key])
                  ELSE source.m[key]])
      ELSE target

\* mergeDeep(target, source): output = { ...target }; every key of source except the
\* unsafe ones is written, merged recursively where both sides hold an object
RECURSIVE mergeDeep(_, _)
mergeDeep(target, source) ==
    IF isObject(target) /\ isObject(source)
      THEN LET written == DOMAIN source.m \ UnsafeKeys
           IN  Obj([key \in DOMAIN target.m \cup written |->
                      IF key \notin written THEN target.m[key]
                      ELSE IF /\ isObject(source.m[key])
                              /\ key \in DOMAIN target.m
                              /\ isObject(target.m[key])
                        THEN mergeDeep(target.m[key], source.m[key])
                      ELSE source.m[key]])
      ELSE IF isObject(target) THEN target
      ELSE Obj(<< >>)   \* { ...target } of null, undefined, a number or a boolean

ReservedKeys == {"series_description", "hidden"}

\* Object.keys(series).filter(k => k !== 'series_description' && k !== 'hidden')
RealVariants(series) == DOMAIN series.m \ ReservedKeys

\* the object without some of its keys
Without(object, keys) == Obj([key \in DOMAIN object.m \ keys |-> object.m[key]])

\* variant: the reserved keys of a series are tested like its variants
StaleVariants_CountsReserved(workingSeries, freshSeries) ==
    {vName \in DOMAIN workingSeries.m : vName \notin DOMAIN freshSeries.m}

\* the variants of the working series that the fresh series does not have
StaleVariants(workingSeries, freshSeries) ==
    {vName \in RealVariants(workingSeries) : vName \notin DOMAIN freshSeries.m}

\* variant: a pass over a series deletes one stale variant and stops
PruneVariants_OneAtATime(workingSeries, freshSeries) ==
    LET stale == StaleVariants(workingSeries, freshSeries)
    IN  IF stale = {} THEN workingSeries
        ELSE Without(workingSeries, {CHOOSE vName \in stale : TRUE})

\* the loop over the variants of a series: delete workingProducers[pName][sName][vName]
PruneVariants(workingSeries, freshSeries) ==
    Without(workingSeries, StaleVariants(workingSeries, freshSeries))

\* variant: a series of the working producer stays when the fresh producer lacks it
PruneSeries_KeepsStaleSeries(workingProducer, freshProducer) ==
    LET pruned(sName) == PruneVariants(workingProducer.m[sName], freshProducer.m[sName])
        inFresh(sName) == sName # "series_description" /\ sName \in DOMAIN freshProducer.m
        deleted == {sName \in DOMAIN workingProducer.m :
                       inFresh(sName) /\ RealVariants(pruned(sName)) = {}}
    IN  Obj([sName \in DOMAIN workingProducer.m \ deleted |->
               IF inFresh(sName) THEN pruned(sName) ELSE workingProducer.m[sName]])

\* the loop over the series of a producer: a series the fresh producer lacks is deleted;
\* the others lose their stale variants and are deleted when no variant is left
PruneSeries(workingProducer, freshProducer) ==
    LET pruned(sName) == PruneVariants(workingProducer.m[sName], freshProducer.m[sName])
        deleted == {sName \in DOMAIN workingProducer.m \ {"series_description"} :
                       \/ sName \notin DOMAIN freshProducer.m
                       \/ RealVariants(pruned(sName)) = {}}
    IN  Obj([sName \in DOMAIN workingProducer.m \ deleted |->
               IF sName = "series_description" THEN workingProducer.m[sName]
               ELSE pruned(sName)])

\* pruneStaleModels(workingProducers, freshProducers): a producer the fresh data lacks
\* is deleted; the others lose their stale series and are deleted when none is left
pruneStaleModels(working, fresh) ==
    IF ~isObject(working) THEN Obj(<< >>)
    ELSE LET pruned(pName) == PruneSeries(working.m[pName], fresh.m[pName])
             deleted == {pName \in DOMAIN working.m :
                            \/ pName \notin DOMAIN fresh.m
                            \/ DOMAIN pruned(pName).m = {}}
         IN  Obj([pName \in DOMAIN working.m \ deleted |-> pruned(pName)])

rehydrateAndMergeProducers(working, fresh) ==
    mergeDeep(fresh, pruneStaleModels(working, fresh))

\* pruneStaleModels tests only workingProducers; the first pass of its loop evaluates
\* freshProducers[pName], a TypeError when freshProducers is null or undefined
PruneThrows(working, fresh) ==
    /\ isObject(working)
    /\ DOMAIN working.m # {}
    /\ IsNullish(fresh)

MergeUnchanged ==
    UNCHANGED <<kvVars, locks, clock, supVars, clVars, cuVars, retryVars, transVars,
                docVars, recVars, sweepVars, syVars>>

\* STAGE 2 of a syncer run: finalProducers = rehydrateAndMergeProducers(...)
Reconcile ==
    /\ mgPc = "input"
    /\ IF PruneThrows(workingProducers, freshProducers)
         THEN /\ mgPc' = "threw"
              /\ UNCHANGED merged
         ELSE /\ merged' = rehydrateAndMergeProducers(workingProducers, freshProducers)
              /\ mgPc' = "merged"
    /\ UNCHANGED <<workingProducers, freshProducers, mergedAgain>>
    /\ MergeUnchanged

\* the result is merged with the same fresh data once more
ReconcileAgain ==
    /\ mgPc = "merged"
    /\ mergedAgain' = rehydrateAndMergeProducers(merged, freshProducers)
    /\ mgPc' = "again"
    /\ UNCHANGED <<workingProducers, freshProducers, merged>>
    /\ MergeUnchanged

InitMerge(existing, fresh) ==
    /\ workingProducers \in existing
    /\ freshProducers \in fresh
    /\ mgPc = "input"
    /\ merged = Obj(<< >>)
    /\ mergedAgain = Obj(<< >>)

----------------------------------------------------------------------------
\* The maintenance sweep: performCleanup (http/handlers/status.js) over the producers
\* of the stored list, as JSON values

\* settings.cleanupThresholds
seriesEn == 2
seriesTranslation == 1
variantTranslation == 1

\* a text of n characters
MaxTextLen == 3
Text(n) == [i \in 1..n |-> 120]

ManualFields == {"title", "summary", "description", "role"}

\* `${name}_source_hash`
SourceHashKey(name) ==
    CASE name = "tr" -> "tr_source_hash"
      [] name = "fr" -> "fr_source_hash"
      [] name = "title" -> "title_source_hash"
      [] name = "summary" -> "summary_source_hash"
      [] name = "description" -> "description_source_hash"
      [] name = "role" -> "role_source_hash"

\* typeof object[key] === 'string' && object[key].length > limit
IsLong(object, key, limit) ==
    /\ key \in DOMAIN object.m
    /\ ~isObject(object.m[key])
    /\ Len(object.m[key].v) > limit

\* an entry of cleaned_items: the path of the field (the length is left out)
Item(pName, sName, vName, container, lang, field) ==
    [pName |-> pName, sName |-> sName, vName |-> vName, container |-> container,
     lang |-> lang, field |-> field]

\* Rule 1: the keys of a series description that are removed
LongSeriesKeys(seriesDesc) ==
    {key \in {"en"} \cup Langs :
        IsLong(seriesDesc, key, IF key = "en" THEN seriesEn ELSE seriesTranslation)}

\* Rule 1: delete desc[key]; if (desc.processing_status) delete the status of the key
\* and, for a target language, its source hash
cleanSeriesDescription(seriesDesc) ==
    LET long == LongSeriesKeys(seriesDesc)
        reset == long \cup {SourceHashKey(lang) : lang \in long \ {"en"}}
    IN  Obj([key \in DOMAIN seriesDesc.m \ long |->
               IF key = "processing_status" /\ isObject(seriesDesc.m[key])
                 THEN Without(seriesDesc.m[key], reset)
                 ELSE seriesDesc.m[key]])

\* Rule 2, manual variant: langObj is details[lang] itself
LongManualFields(details, lang) ==
    IF lang \in DOMAIN details.m /\ isObject(details.m[lang])
      THEN {field \in ManualFields : IsLong(details.m[lang], field, variantTranslation)}
      ELSE {}

\* Rule 2, manual variant: delete langObj[field]; if details.processing_status[lang]
\* is there, delete its field and the source hash of the field
cleanManualDetails(details) ==
    Obj([key \in DOMAIN details.m |->
           IF key \in Langs /\ isObject(details.m[key])
             THEN Without(details.m[key], LongManualFields(details, key))
           ELSE IF key = "processing_status" /\ isObject(details.m[key])
             THEN LET status == details.m[key] IN
                  Obj([lang \in DOMAIN status.m |->
                         IF lang \in Langs /\ isObject(status.m[lang])
                           THEN LET long == LongManualFields(details, lang) IN
                                Without(status.m[lang],
                                        long \cup {SourceHashKey(field) : field \in long})
                           ELSE status.m[lang]])
           ELSE details.m[key]])

\* Rule 2, online variant: the languages whose description is pushed to cleaned_items
LongOnlineLangs(description) ==
    {lang \in Langs : IsLong(description, lang, variantTranslation)}

\* Rule 2, online variant: langObj is a new object { description: processObject[lang] },
\* and `delete langObj[field]` removes the key of that object, not of the description.
\* processing_status[lang] holds the status string of the language: the deletes on it
\* remove nothing (they would remove the keys of an object found there)
cleanOnlineDescription(description) ==
    Obj([key \in DOMAIN description.m |->
           IF key = "processing_status" /\ isObject(description.m[key])
             THEN LET status == description.m[key] IN
                  Obj([lang \in DOMAIN status.m |->
                         IF lang \in LongOnlineLangs(description) /\ isObject(status.m[lang])
                           THEN Without(status.m[lang],
                                        {"description", "description_source_hash"})
                           ELSE status.m[lang]])
           ELSE description.m[key]])

IsManual(variant) ==
    "source" \in DOMAIN variant.m /\ variant.m["source"] = Val("manual")

\* processObject = variant.description || (variant.source === 'manual' ? variant.details : null)
ProcessKey(variant) ==
    IF ~isObject(variant) THEN "none"
    ELSE IF "description" \in DOMAIN variant.m /\ isObject(variant.m["description"])
      THEN IF IsManual(variant) THEN "none" ELSE "description"
    ELSE IF IsManual(variant) /\ "details" \in DOMAIN variant.m
                              /\ isObject(variant.m["details"])
      THEN "details"
    ELSE "none"

cleanVariant(variant) ==
    CASE ProcessKey(variant) = "description" ->
           [variant EXCEPT !.m["description"] = cleanOnlineDescription(@)]
      [] ProcessKey(variant) = "details" ->
           [variant EXCEPT !.m["details"] = cleanManualDetails(@)]
      [] OTHER -> variant

\* the entries pushed for one series
SeriesItems(pName, sName, series) ==
    LET ofDescription ==
          IF "series_description" \in DOMAIN series.m
               /\ isObject(series.m["series_description"])
            THEN {Item(pName, sName, "series_description", "series_description", key, key) :
                     key \in LongSeriesKeys(series.m["series_description"])}
            ELSE {}
        ofVariant(vName) ==
          LET variant == series.m[vName] IN
          CASE ProcessKey(variant) = "description" ->
                 {Item(pName, sName, vName, "description", lang, "description") :
                     lang \in LongOnlineLangs(variant.m["description"])}
            [] ProcessKey(variant) = "details" ->
                 UNION {{Item(pName, sName, vName, "details", lang, field) :
                            field \in LongManualFields(variant.m["details"], lang)} :
                        lang \in Langs}
            [] OTHER -> {}
    IN  ofDescription
          \cup UNION {ofVariant(vName) : vName \in DOMAIN series.m \ {"series_description"}}

cleanSeries(series) ==
    Obj([key \in DOMAIN series.m |->
           IF key = "series_description"
             THEN IF isObject(series.m[key]) THEN cleanSeriesDescription(series.m[key])
                  ELSE series.m[key]
             ELSE cleanVariant(series.m[key])])

\* the two loops of performCleanup over data.producers: the producers as the sweep
\* leaves them and the entries of cleanedItems
performCleanup(producersData) ==
    [data |-> Obj([pName \in DOMAIN producersData.m |->
                     Obj([sName \in DOMAIN producersData.m[pName].m |->
                            cleanSeries(producersData.m[pName].m[sName])])]),
     cleanedItems |->
        UNION {UNION {SeriesItems(pName, sName, producersData.m[pName].m[sName]) :
                         sName \in DOMAIN producersData.m[pName].m} :
                  pName \in DOMAIN producersData.m}]

SweepUnchanged ==
    UNCHANGED <<kvVars, locks, clock, supVars, clVars, cuVars, retryVars, transVars,
                docVars, mergeVars, recVars, syVars>>

\* one request to /cleanup: the list is read and swept; when cleanedItems is not empty
\* the swept list is written back and the report carries cleaned_items
PerformCleanup ==
    /\ sweepPc \in {"idle", "done"}
    /\ LET result == performCleanup(listProducers) IN
         /\ sweptFrom' = listProducers
         /\ cleanedItems' = result.cleanedItems
         /\ listProducers' =
               IF result.cleanedItems # {} THEN result.data ELSE listProducers
    /\ sweepPc' = "done"
    /\ SweepUnchanged

InitSweep(documents) ==
    /\ listProducers \in documents
    /\ sweptFrom = Obj(<< >>)
    /\ cleanedItems = {}
    /\ sweepPc = "idle"

----------------------------------------------------------------------------
\* The syncer: syncModels (processing/manual.js), readCurrentData and writeNewData
\* (part_003), acquireLock and releaseLock (syncer/config.js)

MaxSyncRuns == 2

\* opId of the n-th run: `sync-${Date.now()}-${random}`, a new one for every run
SyncOpIds == <<"sync1", "sync2", "sync3", "sync4">>
opId == SyncOpIds[syRun]

\* finalData: { last_syncer_run, producers, version }
FinalData(run, finalProducers, version) ==
    [last_syncer_run |-> run, producers |-> finalProducers, version |-> version]

\* hashJson(obj).hex: the SHA-256 of JSON.stringify(obj), kept as the serialised value
\* that determines it (two digests are equal exactly when the serialisations are)
hashJson(obj) == [present |-> TRUE, hex |-> obj]
NoStoredHash == [present |-> FALSE, hex |-> FinalData("none", {}, << >>)]

SyUnchanged ==
    UNCHANGED <<supVars, clVars, cuVars, retryVars, transVars, docVars, mergeVars, recVars,
                sweepVars>>

\* a cron trigger: a run starts once the operations of the run before have landed; a
\* held data_write_lock ends it at once
SyStart ==
    /\ syPc = "idle"
    /\ syRun < MaxSyncRuns
    /\ syPending = {}
    /\ syRun' = syRun + 1
    /\ syIssued' = FALSE
    /\ syPc' = IF locks["data_write_lock"] # NoHolder THEN "idle" ELSE "lockGet"
    /\ UNCHANGED <<kvVars, locks, clock, syWorking, syInitialVersion, syFinal, syNewHex,
                   syNewVersion, syPending, kvHash>>
    /\ SyUnchanged

\* acquireLock: const currentHolder = await LOCKS_KV.get(lockKey)
SyLockGet ==
    /\ syPc = "lockGet"
    /\ syPc' = IF locks["syncer_lock"] # NoHolder THEN "idle" ELSE "lockPut"
    /\ UNCHANGED <<kvVars, locks, clock, syRun, syWorking, syInitialVersion, syFinal,
                   syNewHex, syNewVersion, syPending, syIssued, kvHash>>
    /\ SyUnchanged

\* acquireLock: await LOCKS_KV.put(lockKey, opId, { expirationTtl })
SyLockPut ==
    /\ syPc = "lockPut"
    /\ locks' = LocksPut("syncer_lock", opId)
    /\ syPc' = "lockVerify"
    /\ UNCHANGED <<kvVars, clock, syRun, syWorking, syInitialVersion, syFinal, syNewHex,
                   syNewVersion, syPending, syIssued, kvHash>>
    /\ SyUnchanged

\* acquireLock: after 250 ms, newHolder === opId
SyLockVerify ==
    /\ syPc = "lockVerify"
    /\ syPc' = IF locks["syncer_lock"] = opId THEN "read" ELSE "idle"
    /\ UNCHANGED <<kvVars, locks, clock, syRun, syWorking, syInitialVersion, syFinal,
                   syNewHex, syNewVersion, syPending, syIssued, kvHash>>
    /\ SyUnchanged

\* STAGE 1: readCurrentData
SyRead ==
    /\ syPc = "read"
    /\ syWorking' = kvList
    /\ syInitialVersion' = kvVersion
    /\ syPc' = "reconcile"
    /\ UNCHANGED <<kvVars, locks, clock, syRun, syFinal, syNewHex, syNewVersion, syPending,
                   syIssued, kvHash>>
    /\ SyUnchanged

\* STAGES 2 and 3, to the hash test: the reconciled producers are the stored ones or
\* differ from them; finalData carries the opId and new Date().toISOString();
\* `if (newHex === currentHash) return`
SyReconcile ==
    /\ syPc = "reconcile"
    /\ \E changed \in BOOLEAN :
         LET finalProducers == IF changed THEN syWorking.edits \cup {opId}
                               ELSE syWorking.edits
             finalData == FinalData(opId, finalProducers, toISOString(clock))
         IN  /\ syFinal' = finalData
             /\ syNewHex' = hashJson(finalData)
             /\ syPc' = IF hashJson(finalData) = kvHash THEN "release" ELSE "versionCheck"
    /\ clock' = clock + 1
    /\ UNCHANGED <<kvVars, locks, syRun, syWorking, syInitialVersion, syNewVersion,
                   syPending, syIssued, kvHash>>
    /\ SyUnchanged

\* the version test, then createBackups and writeNewData: the three puts are issued under
\* context.waitUntil and not awaited
SyVersionCheck ==
    /\ syPc = "versionCheck"
    /\ IF syWorking.present /\ kvVersion # syInitialVersion
         THEN UNCHANGED <<syNewVersion, syPending, syIssued, clock>>
         ELSE /\ syNewVersion' = toISOString(clock)
              /\ clock' = clock + 1
              /\ syPending' = syPending \cup {"list", "hash", "version"}
              /\ syIssued' = TRUE
    /\ syPc' = "release"
    /\ UNCHANGED <<kvVars, locks, syRun, syWorking, syInitialVersion, syFinal, syNewHex,
                   kvHash>>
    /\ SyUnchanged

\* finally: releaseLock with a context: context.waitUntil(release()), the delete is
\* issued and not awaited
SyRelease ==
    /\ syPc = "release"
    /\ syPending' = syPending \cup {"unlock"}
    /\ syPc' = "idle"
    /\ UNCHANGED <<kvVars, locks, clock, syRun, syWorking, syInitialVersion, syFinal,
                   syNewHex, syNewVersion, syIssued, kvHash>>
    /\ SyUnchanged

\* an operation issued under context.waitUntil lands
SyLands(op) ==
    /\ op \in syPending
    /\ syPending' = syPending \ {op}
    /\ kvList' = IF op = "list" THEN Doc(syFinal.producers) ELSE kvList
    /\ kvHash' = IF op = "hash" THEN syNewHex ELSE kvHash
    /\ kvVersion' = IF op = "version" THEN syNewVersion ELSE kvVersion
    /\ locks' = IF op = "unlock" THEN LocksDelete("syncer_lock") ELSE locks
    /\ UNCHANGED <<clock, syPc, syRun, syWorking, syInitialVersion, syFinal, syNewHex,
                   syNewVersion, syIssued>>
    /\ SyUnchanged

InitSyncer(hashes) ==
    /\ syPc = "idle"
    /\ syRun = 0
    /\ syWorking = NoDoc
    /\ syInitialVersion = NullVersion
    /\ syFinal = NoStoredHash.hex
    /\ syNewHex = NoStoredHash
    /\ syNewVersion = NullVersion
    /\ syPending = {}
    /\ syIssued = FALSE
    /\ kvHash \in hashes

----------------------------------------------------------------------------
\* The workers against one document: one scheduled supervisor run, one cleanup
\* request and the curator's updates, interleaved at their awaits

InitKv ==
    /\ \/ /\ kvList = NoDoc
          /\ kvVersion = NullVersion
       \/ /\ kvList = Doc({})
          /\ kvVersion = toISOString(0)
    /\ locks = [k \in LockKeys |-> NoHolder]
    /\ clock = 1

InitSup(active) ==
    /\ supPc = [i \in SupIds |-> IF i \in active THEN "start" ELSE "off"]
    /\ attempt = [i \in SupIds |-> 1]
    /\ currentData = [i \in SupIds |-> {}]
    /\ initialVersion = [i \in SupIds |-> NullVersion]
    /\ changesMade = [i \in SupIds |-> FALSE]
    /\ supNewVersion = [i \in SupIds |-> NullVersion]
    /\ supEnd = [i \in SupIds |-> "running"]
    /\ supReads = [i \in SupIds |-> 0]
    /\ supChecks = [i \in SupIds |-> 0]
    /\ supConflicts = [i \in SupIds |-> 0]
    /\ supWrote = [i \in SupIds |-> FALSE]
    /\ supReleased = [i \in SupIds |-> FALSE]

InitCleanup(on) ==
    /\ clPc = IF on THEN "start" ELSE "off"
    /\ supervisorHolder = NoHolder
    /\ clData = {}
    /\ clNewVersion = NullVersion

InitCurator(on) ==
    /\ cuPc = IF on THEN "idle" ELSE "off"
    /\ cuData = {}
    /\ cuNewVersion = NullVersion
    /\ cuOps = 0

Init ==
    /\ InitKv
    /\ InitSup({"sup1"})
    /\ InitCleanup(TRUE)
    /\ InitCurator(TRUE)
    /\ InitRetry({0})
    /\ InitTrans({1}, {1}, {<<79, 75>>}, {COMPLETED}, 1)
    /\ InitDoc({<< >>})
    /\ InitMerge({Obj(<< >>)}, {Obj(<< >>)})
    /\ InitRecorders
    /\ InitSweep({Obj(<< >>)})
    /\ InitSyncer({NoStoredHash})

SupNext(i) ==
    \/ SupCheckCleanup(i)
    \/ SupLockGet(i)
    \/ SupLockPut(i)
    \/ SupLockVerify(i)
    \/ SupRead(i)
    \/ SupRunTasks(i)
    \/ SupVersionCheck(i)
    \/ SupWrite(i)
    \/ SupThrow(i)
    \/ SupRelease(i)

CleanupNext ==
    \/ ClCheckSupervisor
    \/ ClCheckSyncer
    \/ ClLockGet
    \/ ClLockPut
    \/ ClLockVerify
    \/ ClScan
    \/ ClPutList
    \/ ClPutVersion
    \/ ClRelease

CuratorNext ==
    \/ CuLockGet
    \/ CuLockPut
    \/ CuMerge
    \/ CuPutList
    \/ CuPutVersion
    \/ CuRelease

Next ==
    \/ \E i \in SupIds : SupNext(i)
    \/ CleanupNext
    \/ CuratorNext

Spec == Init /\ [][Next]_vars

\* the scheduling of a worker runtime: an invocation whose await has resolved goes on
FairSpec == Spec /\ \A i \in SupIds : WF_vars(SupNext(i))

\* two scheduled supervisor runs against the same supervisor_lock
InitLock ==
    /\ InitKv
    /\ InitSup(SupIds)
    /\ InitCleanup(FALSE)
    /\ InitCurator(FALSE)
    /\ InitRetry({0})
    /\ InitTrans({1}, {1}, {<<79, 75>>}, {COMPLETED}, 1)
    /\ InitDoc({<< >>})
    /\ InitMerge({Obj(<< >>)}, {Obj(<< >>)})
    /\ InitRecorders
    /\ InitSweep({Obj(<< >>)})
    /\ InitSyncer({NoStoredHash})

NextLock == \E i \in SupIds : SupNext(i)

SpecLock == InitLock /\ [][NextLock]_vars

\* scheduled runs up to the acquisition of supervisor_lock, run after run: a run that
\* holds the lock releases it or is ended by the runtime, and the entry of a run that
\* was ended expires
SupAcquireRelease(i) ==
    \/ SupCheckCleanup(i)
    \/ SupLockGet(i)
    \/ SupLockPut(i)
    \/ SupLockVerify(i)
    \/ SupThrow(i)
    \/ SupRelease(i)

NextRecovery ==
    \/ \E i \in SupIds : SupAcquireRelease(i)
    \/ \E i \in SupIds : SupCrash(i)
    \/ \E i \in SupIds : SupSchedule(i)
    \/ LockExpire("supervisor_lock")

SpecRecovery == InitLock /\ [][NextRecovery]_vars

\* an invocation whose await has resolved goes on, the cron trigger fires again, and
\* the TTL of an entry runs out
FairSpecRecovery ==
    /\ SpecRecovery
    /\ \A i \in SupIds : WF_vars(SupAcquireRelease(i)) /\ WF_vars(SupSchedule(i))
    /\ WF_vars(LockExpire("supervisor_lock"))

\* calls of the retrying caller one after the other, as the task loops of the
\* supervisor make them, while the TTLs of the LOCKS entries run out
InitCalls ==
    /\ InitKv
    /\ InitSup({})
    /\ InitCleanup(FALSE)
    /\ InitCurator(FALSE)
    /\ InitRetry(0..MaxSetting)
    /\ InitTrans({1}, {1}, {<<79, 75>>}, {COMPLETED}, 1)
    /\ InitDoc({<< >>})
    /\ InitMerge({Obj(<< >>)}, {Obj(<< >>)})
    /\ InitRecorders
    /\ InitSweep({Obj(<< >>)})
    /\ InitSyncer({NoStoredHash})

NextCalls ==
    \/ \E r \in Resources, t \in Tasks, fresh \in BOOLEAN : StartCall(r, t, fresh)
    \/ CheckBlacklists
    \/ InvokeOperation
    \/ GetFailures
    \/ PutFailures
    \/ PutBlacklist
    \/ \E r \in Resources : ExpireBlacklist(r)
    \/ \E r \in Resources : ExpireFailures(r)

SpecRetry == InitCalls /\ [][NextCalls]_vars

\* iterations of the translation phase one after the other on one description, with the
\* admin editing the English text; every invocation has a single iteration
\* (maxConflictRetries = 1)
InitTranslation ==
    /\ InitKv
    /\ InitSup({})
    /\ InitCleanup(FALSE)
    /\ InitCurator(FALSE)
    /\ InitRetry({0})
    /\ InitTrans(1..MaxChunk, {CeilingSetting}, {<<79, 75>>}, {GENERATED}, 1)
    /\ InitDoc({<< >>})
    /\ InitMerge({Obj(<< >>)}, {Obj(<< >>)})
    /\ InitRecorders
    /\ InitSweep({Obj(<< >>)})
    /\ InitSyncer({NoStoredHash})

TrCycle == TrRead \/ TrProcess \/ TrEnd

NextTranslation ==
    \/ TrRead
    \/ TrProcess
    \/ TrEnd
    \/ EditEnglish

SpecTrans == InitTranslation /\ [][NextTranslation]_vars

\* a description whose "tr" translation an administrator has verified or corrected
\* against the current English text; "fr" is verified too, or not translated yet
CuratedDescriptions ==
    {[NoWork EXCEPT !.en = <<79, 75>>,
                    !.status["en"] = COMPLETED,
                    !.status["tr"] = trStatus,
                    !.hash["tr"] = simpleHash(<<79, 75>>),
                    !.status["fr"] = frStatus,
                    !.hash["fr"] = IF frStatus = Undefined THEN NoHash
                                   ELSE simpleHash(<<79, 75>>)] :
        trStatus \in {VERIFIED, AUDITED_CORRECTED},
        frStatus \in {VERIFIED, Undefined}}

InitCurated ==
    /\ InitKv
    /\ InitSup({})
    /\ InitCleanup(FALSE)
    /\ InitCurator(FALSE)
    /\ InitRetry({0})
    /\ InitTransWith(1..MaxChunk, {CeilingSetting}, CuratedDescriptions, 1)
    /\ InitDoc({<< >>})
    /\ InitMerge({Obj(<< >>)}, {Obj(<< >>)})
    /\ InitRecorders
    /\ InitSweep({Obj(<< >>)})
    /\ InitSyncer({NoStoredHash})

SpecCurated == InitCurated /\ [][NextTranslation]_vars

\* the cron trigger keeps starting cycles and a started cycle runs on
FairSpecTrans == SpecTrans /\ WF_vars(TrCycle)

\* the same with the default number of iterations per invocation
InitRun ==
    /\ InitKv
    /\ InitSup({})
    /\ InitCleanup(FALSE)
    /\ InitCurator(FALSE)
    /\ InitRetry({0})
    /\ InitTrans({MaxChunk}, {CeilingSetting}, {<<79, 75>>}, {GENERATED},
                 MAX_SUPERVISOR_CONFLICT_RETRIES)
    /\ InitDoc({<< >>})
    /\ InitMerge({Obj(<< >>)}, {Obj(<< >>)})
    /\ InitRecorders
    /\ InitSweep({Obj(<< >>)})
    /\ InitSyncer({NoStoredHash})

SpecRun == InitRun /\ [][NextTranslation]_vars

\* a series the syncer has just added, and a series whose description has been generated
FreshSeries == SeriesEntry({"v1"}, FALSE, FALSE, FALSE, NoWork)
GeneratedSeries ==
    SeriesEntry({"v1"}, FALSE, TRUE, TRUE,
                [NoWork EXCEPT !.en = <<79, 75>>, !.status["en"] = GENERATED])

\* iterations of both phases over three series: the first two new or with a generated
\* description, the third new
InitPhases ==
    /\ kvList = NoDoc
    /\ kvVersion = NullVersion
    /\ locks = [k \in LockKeys |-> NoHolder]
    /\ clock = 1
    /\ InitSup({})
    /\ InitCleanup(FALSE)
    /\ InitCurator(FALSE)
    /\ InitRetry({0})
    /\ InitTrans(1..MaxChunk, {CeilingSetting}, {<<79, 75>>}, {COMPLETED}, 1)
    /\ InitDoc({<<a, b, FreshSeries>> : a \in {FreshSeries, GeneratedSeries},
                                        b \in {FreshSeries, GeneratedSeries}})
    /\ InitMerge({Obj(<< >>)}, {Obj(<< >>)})
    /\ InitRecorders
    /\ InitSweep({Obj(<< >>)})
    /\ InitSyncer({NoStoredHash})

NextPhases ==
    \/ PhRead
    \/ PhGenerate
    \/ PhFindTranslations
    \/ PhTranslate
    \/ PhEnd

SpecPhases == InitPhases /\ [][NextPhases]_vars

\* the supervisor alone, invoked again and again, with every generation and every
\* translation call succeeding and no other writer (the version check always passes)
NextSucceeding ==
    \/ PhStart(FALSE)
    \/ PhGenerateOf({"generated"})
    \/ PhFindTranslations
    \/ PhTranslateOf({"success"})
    \/ PhEndOf({TRUE})

\* the cron trigger fires again and again, and an await that can resolve does
FairSpecSucceeding == InitPhases /\ [][NextSucceeding]_vars /\ WF_vars(NextSucceeding)

\* the description phase of one iteration over two new series, with the answers of the
\* model
InitGenerate ==
    /\ kvList = NoDoc
    /\ kvVersion = NullVersion
    /\ locks = [k \in LockKeys |-> NoHolder]
    /\ clock = 1
    /\ InitSup({})
    /\ InitCleanup(FALSE)
    /\ InitCurator(FALSE)
    /\ InitRetry({0})
    /\ InitTrans({2}, {CeilingSetting}, {<<79, 75>>}, {COMPLETED}, 1)
    /\ InitDoc({<<FreshSeries, FreshSeries>>})
    /\ InitMerge({Obj(<< >>)}, {Obj(<< >>)})
    /\ InitRecorders
    /\ InitSweep({Obj(<< >>)})
    /\ InitSyncer({NoStoredHash})

NextGenerate ==
    \/ PhRead
    \/ PhGenerateFrom
    \/ PhFindTranslations

SpecGenerate == InitGenerate /\ [][NextGenerate]_vars

\* the statuses a processing_status entry can hold, and the stored hashes: none, the hash
\* of "OK", the hash of "Hi"
Statuses ==
    {Undefined, NOT_PROCESSED, GENERATED, COMPLETED, TRANSLATION_RETRY, FAILED, VERIFIED}
StoredHashes == {NoHash} \cup {simpleHash(text) : text \in EnglishTexts}

\* descriptions with the English text "OK": every status and stored hash for "tr", a few
\* for "fr"
Description(enStatus, trStatus, trHash, fr) ==
    [NoWork EXCEPT !.en = <<79, 75>>,
                   !.status = [l \in Langs \cup {"en"} |->
                                 IF l = "en" THEN enStatus
                                 ELSE IF l = "tr" THEN trStatus ELSE fr[1]],
                   !.hash = [l \in Langs |-> IF l = "tr" THEN trHash ELSE fr[2]]]

DescribedSeries ==
    {SeriesEntry({"v1"}, FALSE, TRUE, TRUE, Description(enStatus, trStatus, trHash, fr)) :
        enStatus \in {GENERATED, COMPLETED}, trStatus \in Statuses,
        trHash \in StoredHashes,
        fr \in {<<Undefined, NoHash>>, <<COMPLETED, simpleHash(<<79, 75>>)>>,
                <<TRANSLATION_RETRY, simpleHash(<<79, 75>>)>>}}

\* series objects of every shape: any variant keys, with or without `hidden`; without
\* series_description, with an empty one, with a generated English text, with an
\* English text and no processing_status
ShapedSeries ==
    {SeriesEntry(variants, hidden, sd[1], sd[2], sd[3]) :
        variants \in SUBSET VariantNames, hidden \in BOOLEAN,
        sd \in {<<FALSE, FALSE, NoWork>>,
                <<TRUE, TRUE, NoWork>>,
                <<TRUE, TRUE, Description(GENERATED, Undefined, NoHash,
                                          <<Undefined, NoHash>>)>>,
                <<TRUE, FALSE, Description(Undefined, Undefined, NoHash,
                                           <<Undefined, NoHash>>)>>}}

FinderDocs ==
    {<<a, b>> : a \in DescribedSeries, b \in DescribedSeries}
      \cup {<<a, b>> : a \in ShapedSeries, b \in ShapedSeries}

\* the two finders applied to documents of two series
InitFinder ==
    /\ kvList = NoDoc
    /\ kvVersion = NullVersion
    /\ locks = [k \in LockKeys |-> NoHolder]
    /\ clock = 1
    /\ InitSup({})
    /\ InitCleanup(FALSE)
    /\ InitCurator(FALSE)
    /\ InitRetry({0})
    /\ InitTrans({1}, {1}, {<<79, 75>>}, {COMPLETED}, 1)
    /\ InitDoc(FinderDocs)
    /\ InitMerge({Obj(<< >>)}, {Obj(<< >>)})
    /\ InitRecorders
    /\ InitSweep({Obj(<< >>)})
    /\ InitSyncer({NoStoredHash})

NextFinder == FindSeries \/ FindTranslations

SpecFinder == InitFinder /\ [][NextFinder]_vars

\* the values of the documents the merger is given: "a/1", "free", "paid", "TM"
IdText == <<97, 47, 49>>
Tiers == {<<102, 114, 101, 101>>, <<112, 97, 105, 100>>}
TranslatedText == <<84, 77>>

\* the key with its value, or nothing
Opt(key, value, present) == IF present THEN key :> value ELSE << >>

\* a variant as the sources give it, and the same with a stored translation of its
\* description
Variant(tier, en) ==
    Obj("id" :> Val(IdText) @@ "tier" :> Val(tier)
          @@ "description" :> Obj("en" :> Val(en)))
EnrichedVariant(tier, en) ==
    Obj("id" :> Val(IdText) @@ "tier" :> Val(tier)
          @@ "description" :>
               Obj("en" :> Val(en) @@ "tr" :> Val(TranslatedText)
                     @@ "processing_status" :>
                          Obj("tr" :> Val(COMPLETED)
                                @@ "tr_source_hash" :> Val(simpleHash(en)))))
PlainVariant == Variant(<<102, 114, 101, 101>>, <<79, 75>>)

\* a generated and verified series description
StoredSeriesDescription ==
    Obj("en" :> Val(<<79, 75>>) @@ "processing_status" :> Obj("en" :> Val(COMPLETED)))

\* fresh series: built by grouping models, so with a variant at least and no reserved key
FreshSeriesSet ==
    {series \in
        {Obj(Opt("v1", Variant(tier, en), hasV1)
               @@ Opt("Default", PlainVariant, hasDefault)) :
            tier \in Tiers, en \in EnglishTexts,
            hasV1 \in BOOLEAN, hasDefault \in BOOLEAN} :
        RealVariants(series) # {}}

FreshDocs ==
    {Obj("A" :> Obj("X" :> x @@ Opt("Y", Obj("v1" :> PlainVariant), hasY))
           @@ Opt("B", Obj("X" :> Obj("v1" :> PlainVariant)), hasB)) :
        x \in FreshSeriesSet, hasY \in BOOLEAN, hasB \in BOOLEAN}

\* stored series: any of the variants v1 (plain or enriched), v2, Default, with or
\* without series_description and hidden
ExistingSeriesSet ==
    {Obj(Opt("v1", v1, hasV1) @@ Opt("v2", PlainVariant, hasV2)
           @@ Opt("Default", PlainVariant, hasDefault)
           @@ Opt("series_description", StoredSeriesDescription, described)
           @@ Opt("hidden", Val(TRUE), hidden)) :
        v1 \in {Variant(tier, en) : tier \in Tiers, en \in EnglishTexts}
                 \cup {EnrichedVariant(tier, en) : tier \in Tiers, en \in EnglishTexts},
        hasV1 \in BOOLEAN, hasV2 \in BOOLEAN, hasDefault \in BOOLEAN,
        described \in BOOLEAN, hidden \in BOOLEAN}

ExistingDocs ==
    {Obj("A" :> Obj("X" :> x @@ Opt("Y", Obj("v1" :> PlainVariant), hasY))
           @@ Opt("B", Obj("X" :> Obj("v1" :> PlainVariant)), hasB)) :
        x \in ExistingSeriesSet, hasY \in BOOLEAN, hasB \in BOOLEAN}
      \cup {Obj(<< >>)}

\* the merger applied to a stored document and a fresh one, and to its own result
InitMerger ==
    /\ kvList = NoDoc
    /\ kvVersion = NullVersion
    /\ locks = [k \in LockKeys |-> NoHolder]
    /\ clock = 1
    /\ InitSup({})
    /\ InitCleanup(FALSE)
    /\ InitCurator(FALSE)
    /\ InitRetry({0})
    /\ InitTrans({1}, {1}, {<<79, 75>>}, {COMPLETED}, 1)
    /\ InitDoc({<< >>})
    /\ InitMerge(ExistingDocs, FreshDocs)
    /\ InitRecorders
    /\ InitSweep({Obj(<< >>)})
    /\ InitSyncer({NoStoredHash})

NextMerger == Reconcile \/ ReconcileAgain

\* the merger with sides that are no mapping
NonObjects == {NullValue, NumberValue}

InitNonObject ==
    /\ kvList = NoDoc
    /\ kvVersion = NullVersion
    /\ locks = [k \in LockKeys |-> NoHolder]
    /\ clock = 1
    /\ InitSup({})
    /\ InitCleanup(FALSE)
    /\ InitCurator(FALSE)
    /\ InitRetry({0})
    /\ InitTrans({1}, {1}, {<<79, 75>>}, {COMPLETED}, 1)
    /\ InitDoc({<< >>})
    /\ InitMerge(ExistingDocs \cup NonObjects,
                 NonObjects \cup {Obj(<< >>), Obj("A" :> Obj("X" :> Obj("v1" :> PlainVariant)))})
    /\ InitRecorders
    /\ InitSweep({Obj(<< >>)})
    /\ InitSyncer({NoStoredHash})

SpecNonObject == InitNonObject /\ [][NextMerger]_vars

\* the syncer alone, on an empty namespace or on what a run before it has stored
InitSync ==
    /\ \/ /\ kvList = NoDoc
          /\ kvVersion = NullVersion
          /\ kvHash = NoStoredHash
       \/ /\ kvList = Doc({})
          /\ kvVersion = toISOString(0)
          /\ kvHash = hashJson(FinalData("sync0", {}, toISOString(0)))
    /\ locks = [k \in LockKeys |-> NoHolder]
    /\ clock = 1
    /\ InitSup({})
    /\ InitCleanup(FALSE)
    /\ InitCurator(FALSE)
    /\ InitRetry({0})
    /\ InitTrans({1}, {1}, {<<79, 75>>}, {COMPLETED}, 1)
    /\ InitDoc({<< >>})
    /\ InitMerge({Obj(<< >>)}, {Obj(<< >>)})
    /\ InitRecorders
    /\ InitSweep({Obj(<< >>)})
    /\ InitSyncer({NoStoredHash, hashJson(FinalData("sync0", {}, toISOString(0)))})

NextSync ==
    \/ SyStart
    \/ SyLockGet
    \/ SyLockPut
    \/ SyLockVerify
    \/ SyRead
    \/ SyReconcile
    \/ SyVersionCheck
    \/ SyRelease
    \/ \E op \in {"list", "hash", "version", "unlock"} : SyLands(op)

SpecSync == InitSync /\ [][NextSync]_vars

SpecMerger == InitMerger /\ [][NextMerger]_vars

\* a stored variant with a translation and an own key of an unsafe name: in the variant,
\* in its description, or in the processing_status of its description
PollutedValue == Obj("polluted" :> Val(TRUE))
PollutedVariant(place, key, tier, en) ==
    Obj("id" :> Val(IdText) @@ "tier" :> Val(tier)
          @@ Opt(key, PollutedValue, place = "variant")
          @@ "description" :>
               Obj("en" :> Val(en) @@ "tr" :> Val(TranslatedText)
                     @@ Opt(key, PollutedValue, place = "description")
                     @@ "processing_status" :>
                          Obj("tr" :> Val(COMPLETED)
                                @@ "tr_source_hash" :> Val(simpleHash(en))
                                @@ Opt(key, PollutedValue, place = "processing_status"))))

PollutedDocs ==
    {Obj("A" :> Obj("X" :> Obj("v1" :> PollutedVariant(place, key, tier, en)
                                 @@ Opt("v2", PlainVariant, hasV2)))) :
        place \in {"variant", "description", "processing_status"}, key \in UnsafeKeys,
        tier \in Tiers, en \in EnglishTexts, hasV2 \in BOOLEAN}

\* the merger applied to stored documents that hold keys of unsafe names
InitUnsafe ==
    /\ kvList = NoDoc
    /\ kvVersion = NullVersion
    /\ locks = [k \in LockKeys |-> NoHolder]
    /\ clock = 1
    /\ InitSup({})
    /\ InitCleanup(FALSE)
    /\ InitCurator(FALSE)
    /\ InitRetry({0})
    /\ InitTrans({1}, {1}, {<<79, 75>>}, {COMPLETED}, 1)
    /\ InitDoc({<< >>})
    /\ InitMerge(PollutedDocs, FreshDocs)
    /\ InitRecorders
    /\ InitSweep({Obj(<< >>)})
    /\ InitSyncer({NoStoredHash})

SpecUnsafe == InitUnsafe /\ [][NextMerger]_vars

\* model ids "a/1", "a/2", "a/3"; the variant name comes from the model's display name
\* (extractSeriesVariant), so the id found under a variant name can change between syncs
ModelIds == {<<97, 47, 49>>, <<97, 47, 50>>, <<97, 47, 51>>}
VariantWithId(id) ==
    Obj("id" :> Val(id) @@ "tier" :> Val(<<102, 114, 101, 101>>)
          @@ "description" :> Obj("en" :> Val(<<79, 75>>)))
IdDocs ==
    {Obj("A" :> Obj("X" :> Obj("v1" :> VariantWithId(id1)
                                 @@ Opt("v2", VariantWithId(id2), hasV2)))) :
        id1 \in ModelIds, id2 \in ModelIds, hasV2 \in BOOLEAN}

\* the merger applied to documents whose variants carry different ids
InitIds ==
    /\ kvList = NoDoc
    /\ kvVersion = NullVersion
    /\ locks = [k \in LockKeys |-> NoHolder]
    /\ clock = 1
    /\ InitSup({})
    /\ InitCleanup(FALSE)
    /\ InitCurator(FALSE)
    /\ InitRetry({0})
    /\ InitTrans({1}, {1}, {<<79, 75>>}, {COMPLETED}, 1)
    /\ InitDoc({<< >>})
    /\ InitMerge(IdDocs, IdDocs)
    /\ InitRecorders
    /\ InitSweep({Obj(<< >>)})
    /\ InitSyncer({NoStoredHash})

SpecIds == InitIds /\ [][NextMerger]_vars

\* invocations recording failures of the translation resource at the same time, inside
\* the TTL of the counter
InitCounting ==
    /\ kvList = NoDoc
    /\ kvVersion = NullVersion
    /\ locks = [k \in LockKeys |-> NoHolder]
    /\ clock = 1
    /\ InitSup({})
    /\ InitCleanup(FALSE)
    /\ InitCurator(FALSE)
    /\ InitRetry(1..MaxSetting)
    /\ InitTrans({1}, {1}, {<<79, 75>>}, {COMPLETED}, 1)
    /\ InitDoc({<< >>})
    /\ InitMerge({Obj(<< >>)}, {Obj(<< >>)})
    /\ InitRecorders
    /\ InitSweep({Obj(<< >>)})
    /\ InitSyncer({NoStoredHash})

NextCounting ==
    \E i \in Invocations, r \in Resources :
        \/ RecFail(i, r)
        \/ RecGet(i, r)
        \/ RecPut(i, r)
        \/ RecBlacklist(i, r)

SpecCounting == InitCounting /\ [][NextCounting]_vars

\* stored lists for the sweep: a series with or without a description, with an online
\* variant and a manual one; a text is short or longer than every threshold
TextLengths == {1, MaxTextLen}

SweepSeriesDescription(lenEn, lenTr) ==
    Obj("en" :> Val(Text(lenEn))
          @@ Opt("tr", Val(Text(lenTr)), lenTr > 0)
          @@ "processing_status" :>
               Obj("en" :> Val(COMPLETED)
                     @@ Opt("tr", Val(COMPLETED), lenTr > 0)
                     @@ Opt("tr_source_hash", Val(simpleHash(Text(lenEn))), lenTr > 0)))

SweepOnlineVariant(lenTr) ==
    Obj("id" :> Val(IdText) @@ "source" :> Val("openrouter")
          @@ "description" :>
               Obj("en" :> Val(<<79, 75>>)
                     @@ Opt("tr", Val(Text(lenTr)), lenTr > 0)
                     @@ "processing_status" :>
                          Obj(Opt("tr", Val(COMPLETED), lenTr > 0)
                                @@ Opt("tr_source_hash", Val(simpleHash(<<79, 75>>)),
                                       lenTr > 0))))

SweepManualVariant(lenTitle, lenSummary) ==
    Obj("id" :> Val(IdText) @@ "source" :> Val("manual")
          @@ "details" :>
               Obj("en" :> Obj("title" :> Val(<<79, 75>>) @@ "summary" :> Val(<<72, 105>>))
                     @@ "tr" :> Obj(Opt("title", Val(Text(lenTitle)), lenTitle > 0)
                                      @@ "summary" :> Val(Text(lenSummary)))
                     @@ "processing_status" :>
                          Obj("tr" :>
                                Obj(Opt("title", Val(COMPLETED), lenTitle > 0)
                                      @@ Opt("title_source_hash",
                                             Val(simpleHash(<<79, 75>>)), lenTitle > 0)
                                      @@ "summary" :> Val(COMPLETED)
                                      @@ "summary_source_hash" :>
                                           Val(simpleHash(<<72, 105>>))))))

SweepDocs ==
    {Obj("A" :> Obj("X" :>
            Obj(Opt("series_description", SweepSeriesDescription(lenEn, lenSeriesTr),
                    described)
                  @@ "v1" :> SweepOnlineVariant(lenTr)
                  @@ "Default" :> SweepManualVariant(lenTitle, lenSummary)))) :
        described \in BOOLEAN, lenEn \in TextLengths,
        lenSeriesTr \in {0} \cup TextLengths, lenTr \in {0} \cup TextLengths,
        lenTitle \in {0} \cup TextLengths, lenSummary \in TextLengths}

InitCleanupSweep ==
    /\ kvList = NoDoc
    /\ kvVersion = NullVersion
    /\ locks = [k \in LockKeys |-> NoHolder]
    /\ clock = 1
    /\ InitSup({})
    /\ InitCleanup(FALSE)
    /\ InitCurator(FALSE)
    /\ InitRetry({0})
    /\ InitTrans({1}, {1}, {<<79, 75>>}, {COMPLETED}, 1)
    /\ InitDoc({<< >>})
    /\ InitMerge({Obj(<< >>)}, {Obj(<< >>)})
    /\ InitRecorders
    /\ InitSweep(SweepDocs)
    /\ InitSyncer({NoStoredHash})

SpecSweep == InitCleanupSweep /\ [][PerformCleanup]_vars

----------------------------------------------------------------------------
\* Properties

\* the invocation is between acquiring and releasing supervisor_lock
InEnrichmentCycle(i) == supPc[i] \in {"read", "tasks", "check", "write", "release"}

\* the cleanup sweep is between acquiring and releasing cleanup_lock
InCleanupSweep == clPc \in {"getList", "putList", "putVersion", "release"}

SupCommits(i) == supPc[i] = "write" /\ supPc'[i] = "release" /\ supWrote'[i]

\* C1: no lost update by the supervisor: when an iteration writes, the stored
\* document is still the one the iteration read (nobody persisted in between).
C1_NoLostUpdate ==
    [][\A i \in SupIds : SupCommits(i) =>
          /\ kvList = Doc(currentData[i] \ {i})
          /\ kvVersion = initialVersion[i]]_vars

\* C2: version-conflict retry: an invocation in which every iteration reached the
\* version check and every check found a changed version read the document once
\* per iteration, ran exactly maxConflictRetries iterations and ended by aborting
\* without having written.
C2_VersionConflictRetry ==
    \A i \in SupIds :
        ( /\ supPc[i] \in {"release", "done"}
          /\ supEnd[i] \notin {"running", "yield", "lockFailed"}
          /\ supChecks[i] = attempt[i]
          /\ supConflicts[i] = supChecks[i] )
        => /\ attempt[i] = MAX_SUPERVISOR_CONFLICT_RETRIES
           /\ supReads[i] = attempt[i]
           /\ ~supWrote[i]
           /\ supEnd[i] = "abort"

C2_Witness ==
    \E i \in SupIds :
        /\ supPc[i] = "done"
        /\ supEnd[i] = "abort"
        /\ supConflicts[i] = MAX_SUPERVISOR_CONFLICT_RETRIES
        /\ supReads[i] = MAX_SUPERVISOR_CONFLICT_RETRIES

\* C3: lock exclusivity: two invocations are never both past a successful
\* acquireLock of supervisor_lock (nothing expires and nobody has released).
C3_LockExclusive ==
    \A i, j \in SupIds : i # j => ~(InEnrichmentCycle(i) /\ InEnrichmentCycle(j))

C5_EnrichmentExcludesCleanup ==
    \A i \in SupIds : ~(InEnrichmentCycle(i) /\ InCleanupSweep)

VersionPut ==
    \/ \E i \in SupIds : SupCommits(i)
    \/ clPc = "putVersion" /\ clPc' = "release"
    \/ cuPc = "putVersion" /\ cuPc' = "release"

\* C8: version monotonicity: every write of 'version' stores a stamp strictly
\* greater, in lexicographic order, than the stamp it replaces.
C8_VersionMonotonic ==
    [][VersionPut => LexLess(kvVersion, kvVersion')]_vars

\* a call has returned whose operation threw a transient error at every invocation,
\* for a resource that was not on the persistent blacklist when the call began
TransientCallDone ==
    /\ callPc = "done"
    /\ callsStarted > 0
    /\ allTransient
    /\ ~startBlacklisted

\* C6 as stated, for settings that are all positive: such a call invokes the operation
\* exactly maxApiCallRetries times and returns success=false with "max_retries_exceeded"
C6_RetryCeiling ==
    ( /\ TransientCallDone
      /\ settings.maxApiCallRetries >= 1
      /\ settings.maxApiFailuresPerModelInTask >= 1
      /\ settings.maxTotalApiFailuresInRun >= 1 ) =>
        /\ opCalls = settings.maxApiCallRetries
        /\ callResult = Failure("max_retries_exceeded")

\* C6, amended: such a call never succeeds and invokes the operation at most
\* maxApiCallRetries times; it returns "max_retries_exceeded" exactly when it made all
\* maxApiCallRetries >= 1 invocations, which it does whenever the failures counted before
\* and during the call stay below both blacklist limits; otherwise a blacklist check
\* ends it earlier ("blacklisted_persistent", "blacklisted_task_action"), and with
\* maxApiCallRetries < 1 it returns "unknown_retry_failure" without an invocation
C6_RetryCeilingUnlessBlacklisted ==
    TransientCallDone =>
        /\ callResult.success = FALSE
        /\ opCalls <= settings.maxApiCallRetries
        /\ callResult.errorType \in {"max_retries_exceeded", "blacklisted_persistent",
                                     "blacklisted_task_action", "unknown_retry_failure"}
        /\ (callResult.errorType = "max_retries_exceeded") <=>
              (opCalls = settings.maxApiCallRetries /\ settings.maxApiCallRetries >= 1)
        /\ (callResult.errorType = "unknown_retry_failure") <=>
              (settings.maxApiCallRetries < 1)
        /\ ( /\ settings.maxApiCallRetries >= 1
             /\ startTaskFailures + settings.maxApiCallRetries - 1
                   < settings.maxApiFailuresPerModelInTask
             /\ startTotalFailures + settings.maxApiCallRetries - 1
                   < settings.maxTotalApiFailuresInRun )
           => callResult.errorType = "max_retries_exceeded"

C6_Witness ==
    /\ TransientCallDone
    /\ settings.maxApiCallRetries >= 2
    /\ opCalls = settings.maxApiCallRetries
    /\ callResult = Failure("max_retries_exceeded")

\* C7: from the moment the failure total recorded for a resource reaches
\* maxTotalApiFailuresInRun until its blacklist entry expires, a call for that resource
\* that passes the loop head (a new call from any task, or the next attempt of the same
\* call) returns "blacklisted_persistent" and the operation is not invoked
C7_BlacklistEscalation ==
    [][(callPc = "check" /\ escalated[modelId] /\ callPc' # "check") =>
          /\ callPc' = "done"
          /\ callResult' = Failure("blacklisted_persistent")
          /\ opCalls' = opCalls]_vars

C7_Witness ==
    /\ callPc = "done"
    /\ callsStarted = 2
    /\ escalated[modelId]
    /\ taskIdentifier = "t2"
    /\ modelApiFailuresPerTask[<<modelId, "t1">>] > 0
    /\ opCalls = 0
    /\ callResult = Failure("blacklisted_persistent")

\* the last step was a translation call for the field of language l
Attempted(l) == trEvent.kind = "call" /\ trEvent.lang = l

\* the last step dropped the working copy of an iteration
Discarded == trEvent.kind = "discard"

CeilingStamps ==
    ( /\ trEvent.kind = "call"
      /\ trEvent.outcome = "fail"
      /\ work.cumulativeFailureCount >= maxCumulativeFailuresPerItem )
    => /\ work.status[trEvent.lang] = FAILED
       /\ work.hash[trEvent.lang] = simpleHash(work.en)

\* a FAILED field that carries the hash of the English text is not emitted
StampedNotEmitted ==
    \A l \in Langs :
        (desc.status[l] = FAILED /\ desc.hash[l] = simpleHash(desc.en)) =>
            \A k \in DOMAIN findTranslationTasks(desc) :
                findTranslationTasks(desc)[k].lang # l

C10_FailureEscalation ==
    ( /\ trEvent.kind = "call"
      /\ trEvent.outcome = "fail"
      /\ work.failedInARow[trEvent.lang] >= 2 )
    => work.status[trEvent.lang] = FAILED

\* the step is a translation call of the loop body
CallStep ==
    /\ trPc = "loop"
    /\ chunk # << >>
    /\ chunk' = Tail(chunk)
    /\ trEvent'.kind = "call"

\* C11: once a call of the invocation has met the disabled-API 403, no later task of the
\* invocation (conflict-retry iterations included) makes a translation call, and the call
\* that meets the 403 leaves the working copy (status, counter) as it was
C11_DisabledShortCircuit ==
    [][/\ apiDisabledSeen => ~CallStep
       /\ (CallStep /\ trEvent'.outcome = "disabled") => work' = work]_vars

\* the running iteration is inside the task loop of a phase, or has just left it
InPhase == phPc \in {"phase0", "phase1"}
PhaseOver == InPhase /\ phChunk = << >>

\* the tasks the loop body has been entered for, and the passes that went past the skip
PassedTasks == [i \in 1..Len(phPasses) |-> phPasses[i].task]
Processed == {i \in 1..Len(phPasses) : ~phPasses[i].skipped}

\* the tasks of the discovered list behind the chunk
LeftOut == {phTasks[i] : i \in (processingChunkSize + 1)..Len(phTasks)}

\* the document still holds for the task what the scan found: the series object as the
\* scan left it (phase 0); the status, the English text and the stored hash the task
\* was built from (phase 1)
Untouched(task) ==
    IF phPc = "phase0"
      THEN stateData[task.sName] =
               findSeriesForDescriptionGeneration(producers).data[task.sName]
      ELSE LET d == stateData[task.sName].d IN
             /\ d.status[task.lang] = task.currentStatus
             /\ task.sourceHash = simpleHash(d.en)
             /\ task.lang # "en" => task.isStale = (d.hash[task.lang] # task.sourceHash)

\* a scan of the document as the iteration leaves it returns the task again
DiscoveredAgain(task) ==
    IF phPc = "phase0"
      THEN LET again == findSeriesForDescriptionGeneration(stateData).tasks
           IN  \E i \in 1..Len(again) : again[i] = task
      ELSE LET again == findTranslationTasksInData(stateData).tasks
           IN  \E i \in 1..Len(again) :
                  again[i].sName = task.sName /\ again[i].lang = task.lang

ChunkIsPrefix ==
    PassedTasks \o phChunk = SubSeq(phTasks, 1, Min(processingChunkSize, Len(phTasks)))

RestKept == \A task \in LeftOut : Untouched(task) /\ DiscoveredAgain(task)

PriorityClass(task) ==
    CASE task.isStale \/ task.currentStatus \in {Undefined, NOT_PROCESSED} -> 1
      [] ~task.isStale /\ task.currentStatus = TRANSLATION_RETRY -> 2
      [] ~task.isStale /\ task.currentStatus = GENERATED -> 3
      [] OTHER -> 99

\* the position of the task of a series and a language in a list of tasks
PositionIn(list, task) ==
    CHOOSE i \in 1..Len(list) : list[i].sName = task.sName /\ list[i].lang = task.lang

\* C13: the list findTranslationTasks returns holds the tasks of the traversal, sorted
\* ascending by priority class (1: stale, no status or not_processed; 2:
\* translation_retry; 3: generated; 99: anything else), tasks of equal class in the
\* order of the traversal.
C13_PriorityOrder ==
    phPc = "translations" =>
      LET discovered == PushedFrom(producers, 1) IN
        /\ Len(phTasks) = Len(discovered)
        /\ \A i \in 1..Len(discovered) : \E j \in 1..Len(phTasks) : phTasks[j] = discovered[i]
        /\ \A i, j \in 1..Len(phTasks) :
              i < j =>
                /\ PriorityClass(phTasks[i]) <= PriorityClass(phTasks[j])
                /\ PriorityClass(phTasks[i]) = PriorityClass(phTasks[j])
                      => PositionIn(discovered, phTasks[i])
                           < PositionIn(discovered, phTasks[j])

\* a returned list with all four classes, two tasks of class 1 among them, and a task
\* of the second series in front of a task of the first
C13_Witness ==
    /\ phPc = "translations"
    /\ {PriorityClass(phTasks[i]) : i \in 1..Len(phTasks)} = {1, 2, 3, 99}
    /\ \E i, j \in 1..Len(phTasks) :
          /\ i < j
          /\ PriorityClass(phTasks[i]) = 1
          /\ PriorityClass(phTasks[j]) = 1
    /\ \E i, j \in 1..Len(phTasks) :
          i < j /\ phTasks[i].sName = 2 /\ phTasks[j].sName = 1

\* the series description of series k has an English text, and the hash stored for the
\* language is not the hash of that text
StaleField(data, k, lang) ==
    /\ HasEnglish(data[k])
    /\ data[k].d.hash[lang] # simpleHash(data[k].d.en)

\* C14: for every series description with an English text and every target language, if
\* the stored source hash differs from the hash of the English text, the list
\* findTranslationTasks returns has a task for that description and language with
\* isStale true, whatever the stored status.
C14_StaleIsEmitted ==
    phPc = "translations" =>
      \A k \in 1..Len(producers), lang \in Langs :
        StaleField(producers, k, lang) =>
          \E i \in 1..Len(phTasks) :
            /\ phTasks[i].sName = k
            /\ phTasks[i].lang = lang
            /\ phTasks[i].isStale
            /\ phTasks[i].sourceHash = simpleHash(producers[k].d.en)

\* the finder has returned its list for a document where one description is stale with
\* the status completed and a hash of another text, and another stale with FAILED
C14_Witness ==
    /\ phPc = "translations"
    /\ StaleField(producers, 1, "tr")
    /\ producers[1].d.status["tr"] = COMPLETED
    /\ producers[1].d.hash["tr"] # NoHash
    /\ StaleField(producers, 2, "tr")
    /\ producers[2].d.status["tr"] = FAILED

\* a finder has returned
FinderDone == phPc \in {"series", "translations"}

WithEmptyDescription(seriesObj) ==
    [seriesObj EXCEPT !.series_description = TRUE, !.processing_status = TRUE]
WithEmptyStatus(seriesObj) == [seriesObj EXCEPT !.processing_status = TRUE]

YieldsTask(k) == \E i \in 1..Len(phTasks) : phTasks[i].sName = k

\* C16: a series whose only variant is "Default" yields no description-generation task,
\* with or without the keys series_description and hidden; every other series yields a
\* task exactly when its series_description has no English text.
C16_ManualContainerExempt ==
    phPc = "series" =>
      \A k \in 1..Len(producers) :
        YieldsTask(k) <=> (producers[k].variants # {"Default"} /\ ~HasEnglish(producers[k]))

\* C17: merging the result of rehydrateAndMergeProducers with the same fresh data once
\* more gives the same result.
C17_ReconcileIdempotent == mgPc = "again" => mergedAgain = merged

\* the second merge is done, on a first result that is neither the stored nor the fresh
\* document, from a stored series with two variants the fresh series lacks
C17_Witness ==
    /\ mgPc = "again"
    /\ merged # workingProducers
    /\ merged # freshProducers
    /\ "A" \in DOMAIN workingProducers.m
    /\ {"v1", "v2"} \subseteq
          StaleVariants(workingProducers.m["A"].m["X"], freshProducers.m["A"].m["X"])

\* the object has the key
Has(object, key) == isObject(object) /\ key \in DOMAIN object.m

\* the producer/series/variant paths of a document
VariantPaths(document) ==
    {<<pName, sName, vName>> \in
        {"A", "B"} \X {"X", "Y"} \X {"Default", "v1", "v2"} :
        /\ Has(document, pName)
        /\ Has(document.m[pName], sName)
        /\ Has(document.m[pName].m[sName], vName)}
VariantAt(document, path) == document.m[path[1]].m[path[2]].m[path[3]]

\* the description of the variant holds a translation to "tr" with its status and the
\* source hash stored for it
HasTranslation(variant) ==
    /\ Has(variant, "description")
    /\ Has(variant.m["description"], "tr")
    /\ Has(variant.m["description"], "processing_status")
    /\ Has(variant.m["description"].m["processing_status"], "tr")
    /\ Has(variant.m["description"].m["processing_status"], "tr_source_hash")
StoredHash(variant) ==
    variant.m["description"].m["processing_status"].m["tr_source_hash"].v

\* C18: when a variant of the stored document holds, for its description, a translation
\* with its status and the stored source hash H, and the fresh document has the same
\* producer/series/variant with an English description hashing to H, the merged
\* document has that variant with the same translation, status and stored hash.
C18_EnrichmentPreserved ==
    mgPc = "merged" =>
      \A path \in VariantPaths(workingProducers) \cap VariantPaths(freshProducers) :
        LET existing == VariantAt(workingProducers, path)
            fresh == VariantAt(freshProducers, path)
        IN  ( /\ HasTranslation(existing)
              /\ Has(fresh, "description")
              /\ Has(fresh.m["description"], "en")
              /\ simpleHash(fresh.m["description"].m["en"].v) = StoredHash(existing) )
            => /\ path \in VariantPaths(merged)
               /\ HasTranslation(VariantAt(merged, path))
               /\ VariantAt(merged, path).m["description"].m["tr"]
                     = existing.m["description"].m["tr"]
               /\ VariantAt(merged, path).m["description"].m["processing_status"]
                     = existing.m["description"].m["processing_status"]

\* the merge is done for a stored variant with a translation whose hash is the hash of
\* the fresh English text, in a series that also lost a stale variant
C18_Witness ==
    /\ mgPc = "merged"
    /\ <<"A", "X", "v1">> \in VariantPaths(workingProducers) \cap VariantPaths(freshProducers)
    /\ HasTranslation(VariantAt(workingProducers, <<"A", "X", "v1">>))
    /\ simpleHash(VariantAt(freshProducers, <<"A", "X", "v1">>).m["description"].m["en"].v)
          = StoredHash(VariantAt(workingProducers, <<"A", "X", "v1">>))
    /\ <<"A", "X", "v2">> \in VariantPaths(workingProducers)
    /\ VariantAt(freshProducers, <<"A", "X", "v1">>).m["tier"]
          # VariantAt(workingProducers, <<"A", "X", "v1">>).m["tier"]

\* the scalar fields of a variant that are no enrichment
BaseFields == {"id", "tier"}

\* C19: for a variant at the same path in the stored and the fresh document, every base
\* scalar field whose values differ has the fresh value in the merged document.
C19_FreshWinsOnBaseData ==
    mgPc = "merged" =>
      \A path \in VariantPaths(workingProducers) \cap VariantPaths(freshProducers) :
        \A field \in BaseFields :
          LET existing == VariantAt(workingProducers, path)
              fresh == VariantAt(freshProducers, path)
          IN  ( /\ Has(existing, field)
                /\ Has(fresh, field)
                /\ existing.m[field] # fresh.m[field] )
              => /\ path \in VariantPaths(merged)
                 /\ VariantAt(merged, path).m[field] = fresh.m[field]

SeriesPaths(document) ==
    {<<pName, sName>> \in {"A", "B"} \X {"X", "Y"} :
        Has(document, pName) /\ Has(document.m[pName], sName)}
SeriesAt(document, path) == document.m[path[1]].m[path[2]]

\* the variants the stored series and the fresh series have in common
SharedVariants(path) ==
    (DOMAIN SeriesAt(workingProducers, path).m \ {"series_description", "hidden"})
      \cap DOMAIN SeriesAt(freshProducers, path).m

\* C21: for every series of the stored document that the fresh document has too, with a
\* variant in common, the merged document has the stored series_description as it was
\* (texts and processing_status) and the common variants, the fresh series having no
\* series_description.
C21_SeriesDescriptionCarried ==
    mgPc = "merged" =>
      \A path \in SeriesPaths(workingProducers) \cap SeriesPaths(freshProducers) :
        SharedVariants(path) # {} =>
          /\ path \in SeriesPaths(merged)
          /\ SharedVariants(path) \subseteq DOMAIN SeriesAt(merged, path).m
          /\ Has(SeriesAt(workingProducers, path), "series_description") =>
                /\ Has(SeriesAt(merged, path), "series_description")
                /\ SeriesAt(merged, path).m["series_description"]
                      = SeriesAt(workingProducers, path).m["series_description"]

\* the merge is done for a stored series with a description, a variant the fresh series
\* has and a variant it lacks, the fresh series being without series_description
C21_Witness ==
    /\ mgPc = "merged"
    /\ <<"A", "X">> \in SeriesPaths(workingProducers)
    /\ Has(SeriesAt(workingProducers, <<"A", "X">>), "series_description")
    /\ ~Has(SeriesAt(freshProducers, <<"A", "X">>), "series_description")
    /\ "v1" \in SharedVariants(<<"A", "X">>)
    /\ Has(SeriesAt(workingProducers, <<"A", "X">>), "v2")
    /\ Has(SeriesAt(merged, <<"A", "X">>), "series_description")

\* the keys of a value, at every depth
RECURSIVE KeysIn(_)
KeysIn(value) ==
    IF isObject(value)
      THEN DOMAIN value.m \cup UNION {KeysIn(value.m[key]) : key \in DOMAIN value.m}
      ELSE {}

MergeDone == mgPc \in {"merged", "again"}

RECURSIVE UnsafeKeysNotWritten(_, _, _)
UnsafeKeysNotWritten(target, source, output) ==
    (isObject(target) /\ isObject(source)) =>
      /\ \A key \in UnsafeKeys \cap DOMAIN output.m : key \in DOMAIN target.m
      /\ \A key \in DOMAIN source.m \ UnsafeKeys :
            (/\ isObject(source.m[key])
             /\ key \in DOMAIN target.m
             /\ isObject(target.m[key]))
              => UnsafeKeysNotWritten(target.m[key], source.m[key], output.m[key])

DistinctIds(document) ==
    \A p1, p2 \in VariantPaths(document) :
        (/\ Has(VariantAt(document, p1), "id")
         /\ Has(VariantAt(document, p2), "id")
         /\ VariantAt(document, p1).m["id"] = VariantAt(document, p2).m["id"])
          => p1 = p2

\* C23: when the variant ids are pairwise distinct in the stored document and pairwise
\* distinct in the fresh one, they are pairwise distinct in the merged document.
C23_IdsStayDistinct ==
    (MergeDone /\ DistinctIds(workingProducers) /\ DistinctIds(freshProducers))
      => DistinctIds(merged)

\* the step in which apiCallFunction is invoked and throws the given kind of error
Throws(kind) == callPc = "invoke" /\ opCalls' = opCalls + 1 /\ lastError' = kind

\* the call has returned the given errorType and no other call has begun
Returned(errorType) ==
    /\ callPc = "done"
    /\ callResult = Failure(errorType)
    /\ callsStarted' = callsStarted

\* the counters and the blacklist of the resource are not raised by the step
NothingCounted ==
    /\ modelApiFailuresPerTask' = modelApiFailuresPerTask
    /\ failuresKv'[modelId] <= failuresKv[modelId]
    /\ blacklistKv'[modelId] => blacklistKv[modelId]

\* C24: when the operation throws an API error with a 4xx status other than 429, the
\* call returns "client_error" in that step, with the per-task counter, the persistent
\* counter and the blacklist as they were; afterwards the operation is not invoked
\* again for that call and nothing is counted.
C24_ClientErrorFinalAndFree ==
    [][/\ Throws("client") =>
            /\ callPc' = "done"
            /\ callResult' = Failure("client_error")
            /\ UNCHANGED <<modelApiFailuresPerTask, failuresKv, blacklistKv>>
       /\ Returned("client_error") => (opCalls' = opCalls /\ NothingCounted)]_vars

\* the second attempt of a call has thrown a client error: the first, transient, failure
\* is the only one counted
C24_Witness ==
    /\ callPc = "done"
    /\ callResult = Failure("client_error")
    /\ opCalls = 2
    /\ settings.maxApiCallRetries = 2
    /\ modelApiFailuresPerTask[<<modelId, taskIdentifier>>] = startTaskFailures + 1
    /\ failuresKv[modelId] = startTotalFailures + 1
    /\ ~blacklistKv[modelId]

\* C25: when the operation throws a configuration error, the call returns
\* "config_error" in that step whatever maxApiCallRetries is, with the per-task counter,
\* the persistent counter and the blacklist as they were.
C25_ConfigErrorFinalAndFree ==
    [][Throws("config") =>
          /\ callPc' = "done"
          /\ callResult' = Failure("config_error")
          /\ UNCHANGED <<modelApiFailuresPerTask, failuresKv, blacklistKv>>]_vars

\* C26: an exception raised while a task of either phase is processed does not end the
\* iteration, and the tasks of the chunk behind it are still passed to the loop body.
C26_PoisonPillIsolated ==
    \A i \in 1..Len(phPasses) :
        phPasses[i].threw => (InPhase /\ ChunkIsPrefix)

\* no invocation is inside the counting code
CountingQuiet == \A i \in Invocations : recPc[i] = "idle"

\* C27: whatever the interleaving of the invocations that record failures of a resource,
\* once they have left the counting code the persistent counter equals the number of
\* failures recorded, and the resource is blacklisted when that number has reached
\* maxTotalApiFailuresInRun.
C27_NoIncrementLost ==
    CountingQuiet =>
      \A r \in Resources :
        /\ failuresKv[r] = recorded[r]
        /\ recorded[r] >= settings.maxTotalApiFailuresInRun => blacklistKv[r]

\* the object that holds the text of an entry, and the object that holds its status
ItemHolder(document, item) ==
    LET series == document.m[item.pName].m[item.sName] IN
    CASE item.container = "series_description" -> series.m["series_description"]
      [] item.container = "description" -> series.m[item.vName].m["description"]
      [] item.container = "details" -> series.m[item.vName].m["details"].m[item.lang]

ItemStatus(document, item) ==
    LET series == document.m[item.pName].m[item.sName] IN
    CASE item.container = "series_description" ->
           series.m["series_description"].m["processing_status"]
      [] item.container = "description" ->
           series.m[item.vName].m["description"].m["processing_status"]
      [] item.container = "details" ->
           series.m[item.vName].m["details"].m["processing_status"].m[item.lang]

ItemKey(item) == IF item.container = "details" THEN item.field ELSE item.lang

TextPresent(document, item) == ItemKey(item) \in DOMAIN ItemHolder(document, item).m

\* the status of the field and, for a translation, its source hash are absent
StatusReset(document, item) ==
    /\ ItemKey(item) \notin DOMAIN ItemStatus(document, item).m
    /\ ItemKey(item) # "en" =>
          SourceHashKey(ItemKey(item)) \notin DOMAIN ItemStatus(document, item).m

\* the fields the sweep looks at in the stored lists
SweptFields ==
    {Item("A", "X", "series_description", "series_description", key, key) :
        key \in {"en", "tr"}}
      \cup {Item("A", "X", "v1", "description", "tr", "description")}
      \cup {Item("A", "X", "Default", "details", "tr", field) : field \in {"title", "summary"}}

Swept(item) ==
    item.container = "series_description" => Has(sweptFrom.m["A"].m["X"], "series_description")

\* C28: after performCleanup every entry of cleaned_items names a field whose text is
\* absent from the stored list and whose status and source hash are reset, and every
\* field whose text the sweep removed is an entry of cleaned_items.
C28_CleanupReportExact ==
    sweepPc = "done" =>
      /\ \A item \in cleanedItems :
            ~TextPresent(listProducers, item) /\ StatusReset(listProducers, item)
      /\ \A item \in SweptFields :
            (/\ Swept(item)
             /\ TextPresent(sweptFrom, item)
             /\ ~TextPresent(listProducers, item))
              => item \in cleanedItems

\* the invocation was ended while it held supervisor_lock, and the entry is still there
Stuck(i) == supPc[i] = "crashed" /\ locks["supervisor_lock"] = i

\* acquireLock has returned true to the invocation
Acquired(i) == supPc[i] = "read"

\* C29: when an invocation has acquired the lock and stopped without releasing it, the
\* entry disappears and the acquireLock of a later invocation eventually returns true.
C29_CrashRecovery ==
    \A i \in SupIds :
        Stuck(i) ~> (~Stuck(i) /\ \E j \in SupIds : Acquired(j))

\* the entry of an ended invocation is in LOCKS while another invocation has been turned
\* away by it
C29_Witness ==
    \E i, j \in SupIds :
        /\ i # j
        /\ Stuck(i)
        /\ supPc[j] = "done"
        /\ supEnd[j] = "lockFailed"

\* C30: when the call for a translation task is turned away with
\* "blacklisted_persistent" or "blacklisted_task_action", the field of the task keeps its
\* processing status and cumulativeFailureCount is not incremented.
C30_ExclusionIsNotFailure ==
    [][(CallStep /\ trEvent'.outcome = "excluded") =>
          /\ work'.status[trEvent'.lang] = work.status[trEvent'.lang]
          /\ work'.cumulativeFailureCount = work.cumulativeFailureCount]_vars

\* C31: a translation task whose field was left at translation_retry by a failure of an
\* earlier cycle is in priority class 2 when a later cycle discovers it, and stands in
\* the sorted list behind every task of class 1.
C31_RetriedOnceIsClassTwo ==
    trPc = "loop" =>
      \A i \in 1..Len(trTasks) :
          trTasks[i].currentStatus = TRANSLATION_RETRY =>
            /\ getPriority(trTasks[i]) = 2
            /\ \A k \in 1..Len(trTasks) :
                  (trTasks[k].currentStatus # TRANSLATION_RETRY
                     /\ getPriority(trTasks[k]) = 1) => k < i

\* the length of the text is between seriesDescMinLength and seriesDescMaxLength
InRange(text) == Len(text) \in seriesDescMinLength..seriesDescMaxLength

\* C32: in the description phase a pass writes series_description.en only with a text
\* whose length is between seriesDescMinLength and seriesDescMaxLength, and sets the
\* status to generated; an answer that is empty or out of range is not written and is
\* counted as a failure of the call.
C32_GeneratedLengthInRange ==
    phPc = "phase0" =>
      \A i \in 1..Len(phPasses) :
        LET pass == phPasses[i]
            d == stateData[pass.task.sName].d
            last == pass.tried[Len(pass.tried)]
        IN  /\ d.en # << >> => (InRange(d.en) /\ d.en = last /\ d.status["en"] = GENERATED)
            /\ ~InRange(last) => (d.en = << >> /\ d.status["en"] # GENERATED)
            /\ pass.failures = Cardinality({k \in 1..Len(pass.tried) : ~InRange(pass.tried[k])})

\* a pass has discarded an answer that was too long and written the next one
C32_Witness ==
    /\ phPc = "phase0"
    /\ \E i \in 1..Len(phPasses) :
          /\ Len(phPasses[i].tried) = 2
          /\ Len(phPasses[i].tried[1]) > seriesDescMaxLength
          /\ phPasses[i].failures = 1
          /\ stateData[phPasses[i].task.sName].d.en = phPasses[i].tried[2]

\* the step that ends the task phases of invocation i with changesMade false
EndsUnchanged(i) == supPc[i] = "tasks" /\ supPc'[i] # "tasks" /\ ~changesMade'[i]

\* C33: an iteration whose task phases leave changesMade false makes no version check
\* and no write: 'list' and 'version' stay as they are and the invocation ends with
\* the "no changes" result, going to the release of its lock.
C33_NoChangesNoWrite ==
    /\ [][\A i \in SupIds :
            EndsUnchanged(i) =>
              /\ kvList' = kvList
              /\ kvVersion' = kvVersion
              /\ supChecks'[i] = supChecks[i]
              /\ supEnd'[i] = "noChanges"
              /\ supPc'[i] = "release"]_vars
    /\ [](\A i \in SupIds :
            supEnd[i] = "noChanges" => (~supWrote[i] /\ supPc[i] \in {"release", "done"}))

\* an invocation has read a stored list, changed nothing and ended
C33_Witness ==
    \E i \in SupIds :
        /\ supEnd[i] = "noChanges"
        /\ supPc[i] = "done"
        /\ supReads[i] >= 1
        /\ supChecks[i] = 0
        /\ kvList.present

\* the step in which the curator's put of 'list' lands
CuCommits == cuPc = "putList" /\ cuPc' = "putVersion"

\* C34: no lost update by the curator: when the curator's write lands, the stored list
\* is still the one the curator read, so the write replaces it by that list with the
\* curator's edit and drops no change committed by the supervisor or the cleanup since.
C34_CuratorNoLostUpdate ==
    [][CuCommits => kvList.edits \cup {CuratorEdit(cuOps)} = cuData]_vars

\* a side of the merger, a side that is no mapping taken as the empty mapping
AsMapping(side) == IF isObject(side) THEN side ELSE Obj(<< >>)

\* C35: with an existing or a fresh side that is no mapping, the merger does not throw:
\* it returns a mapping, the one it returns with the empty mapping in place of that side.
C35_NonObjectSideIsEmpty ==
    (~isObject(workingProducers) \/ ~isObject(freshProducers)) =>
      /\ mgPc # "threw"
      /\ mgPc = "merged" =>
            /\ isObject(merged)
            /\ merged = rehydrateAndMergeProducers(AsMapping(workingProducers),
                                                   AsMapping(freshProducers))

\* the step in which releaseLock of invocation i runs
Releases(i) == supPc[i] = "release" /\ supPc'[i] = "done"

\* C36: releaseLock removes the lock entry only when the releasing invocation is still
\* its recorded holder: the release of an invocation whose entry has expired and has
\* been taken by another invocation leaves that entry in place.
C36_ReleaseOnlyOwnLock ==
    [][\A i \in SupIds :
          (Releases(i) /\ locks["supervisor_lock"] # i) => locks' = locks]_vars

\* the step in which the entry of syncer_lock is removed
SyncerLockFreed == locks["syncer_lock"] # NoHolder /\ locks'["syncer_lock"] = NoHolder

\* C37: the syncer writes under its lock: when syncer_lock is released, the writes of
\* 'list', 'hash' and 'version' that the run has issued have landed.
C37_WritesLandBeforeRelease ==
    [][SyncerLockFreed => syPending \cap {"list", "hash", "version"} = {}]_vars

\* C38: a run whose reconciled producers are the stored ones performs no write.
C38_IdenticalProducersNoWrite ==
    (syIssued /\ syWorking.present) => syFinal.producers # syWorking.edits

\* the translation to lang is verified or corrected by an administrator and made from
\* the current English text
Protected(d, lang) ==
    /\ d.status[lang] \in {VERIFIED, AUDITED_CORRECTED}
    /\ d.hash[lang] = simpleHash(d.en)

\* C39: a translation whose status is verified or audited_corrected and whose stored
\* source hash matches the current English text is not replaced by the supervisor (no
\* translation is made for it and written over it) and its status is not changed, in
\* the working copy or in the stored document.
C39_VerifiedTranslationKept ==
    [][\A lang \in Langs :
          /\ (Protected(work, lang) /\ work.en = desc.en) =>
                /\ ~(CallStep /\ trEvent'.lang = lang)
                /\ trPc' = "loop" => work'.status[lang] = work.status[lang]
          /\ Protected(desc, lang) => desc'.status[lang] = desc.status[lang]]_vars

\* both finders return no task for the stored document
Quiescent ==
    /\ findSeriesForDescriptionGeneration(producers).tasks = << >>
    /\ findTranslationTasksInData(producers).tasks = << >>

\* C40: with every generation and translation call succeeding and no other writer, the
\* repeated invocations reach a stored document for which both finders return no task
\* and stay there: from then on no invocation makes a change or writes.
C40_ReachesQuiescence ==
    /\ <>[]Quiescent
    /\ [][Quiescent => (producers' = producers /\ ~phChangesMade')]_vars

\* an invocation has ended on a document with no task left whose series have been
\* described, verified and translated
C40_Witness ==
    /\ Quiescent
    /\ phPc = "idle"
    /\ phCycles >= 2
    /\ \A k \in 1..Len(producers) :
          /\ producers[k].d.status["en"] = COMPLETED
          /\ \A lang \in Langs : producers[k].d.status[lang] = COMPLETED
    /\ \E k \in 1..Len(producers) : producers[k].d.en = GeneratedText

====
